---- MODULE Spec2Model ----
(***************************************************************************)
(* A model of gslog's GcpHandler (handler.go) and of the attribute mapping *)
(* of internal/attr (attr.go).                                             *)
(*                                                                         *)
(* Handlers, their payloads and the backing arrays of their group slices   *)
(* live in three heaps, so that what a Go pointer or slice shares is       *)
(* shared in the model too:                                                *)
(*   payloads  the *spb.Struct a handler's payload field points to         *)
(*   arrays    the backing arrays of the []string group slices             *)
(*   handlers  the GcpHandler values, in order of construction             *)
(* context is the context.Context the caller has built with WithLabels,    *)
(* threads the positions of the threads that are inside a call.            *)
(***************************************************************************)
EXTENDS Integers, Sequences, FiniteSets, TLC

VARIABLES replaceAttr, handlers, payloads, arrays, last, context, threads

vars == <<replaceAttr, handlers, payloads, arrays, last, context, threads>>

(***************************************************************************)
(* Bounds of the model: the number of handlers a run may hold under Spec,  *)
(* under SpecAttrs and under SpecDeep.                                     *)
(***************************************************************************)
MaxHandlers == 4
MaxAttrHandlers == 3
MaxDeepHandlers == 6

(***************************************************************************)
(* spb.Value and spb.Struct.  A Struct's Fields is a function from field   *)
(* names to values; every value has the same three fields.                 *)
(***************************************************************************)
EmptyFields == [k \in {} |-> 0]

Put(f, k, v) == [x \in (DOMAIN f) \cup {k} |-> IF x = k THEN v ELSE f[x]]

Delete(f, k) == [x \in (DOMAIN f) \ {k} |-> f[x]]

NewNilValue == [kind |-> "null", str |-> "", fields |-> EmptyFields]

NewStringValue(s) == [kind |-> "string", str |-> s, fields |-> EmptyFields]

NewNumberValue(n) == [kind |-> "number", str |-> n, fields |-> EmptyFields]

NewBoolValue(b) == [kind |-> "bool", str |-> b, fields |-> EmptyFields]

NewStructValue(f) == [kind |-> "struct", str |-> "", fields |-> f]

(* A *spb.Struct that may be nil: GetStructValue of an absent field or of  *)
(* a field that is no struct is the nil pointer.                           *)
NilStruct == [nil |-> TRUE, fields |-> EmptyFields]

StructPtr(f) == [nil |-> FALSE, fields |-> f]

GetStructValue(f, k) ==
    IF k \in DOMAIN f /\ f[k].kind = "struct" THEN StructPtr(f[k].fields) ELSE NilStruct

(***************************************************************************)
(* slog.Attr and slog.Value.  str holds a scalar's text, or for KindAny    *)
(* the name of the opaque object; group the children of a group; lv the    *)
(* value a LogValuer's LogValue method returns.                            *)
(***************************************************************************)
Attr(k, v) == [key |-> k, value |-> v]

StringValue(s) == [kind |-> "String", str |-> s, group |-> <<>>, lv |-> <<>>]

IntValue(n) == [kind |-> "Int64", str |-> n, group |-> <<>>, lv |-> <<>>]

BoolValue(b) == [kind |-> "Bool", str |-> b, group |-> <<>>, lv |-> <<>>]

AnyValue(obj) == [kind |-> "Any", str |-> obj, group |-> <<>>, lv |-> <<>>]

LogValuerValue(v) == [kind |-> "LogValuer", str |-> "", group |-> <<>>, lv |-> <<v>>]

IsEmptyGroup(a) == a.value.kind = "Group" /\ Len(a.value.group) = 0

IsNotEmptyGroup(a) == ~IsEmptyGroup(a)

(* slog.GroupValue removes the children that are empty groups. *)
GroupValue(as) ==
    [kind |-> "Group", str |-> "", group |-> SelectSeq(as, IsNotEmptyGroup), lv |-> <<>>]

Group(k, as) == Attr(k, GroupValue(as))

(* The zero slog.Attr: the elided marker. *)
ZeroAttr == Attr("", AnyValue("nil"))

(* slog.Value.Resolve: a LogValuer is replaced by what it returns. *)
RECURSIVE Resolve(_)
Resolve(v) == IF v.kind = "LogValuer" THEN Resolve(v.lv[1]) ELSE v

(* v.Any() == nil: only the KindAny value that holds nil. *)
AnyIsNil(v) == v.kind = "Any" /\ v.str = "nil"

(***************************************************************************)
(* The opaque objects of KindAny values: whether the object is an error, a *)
(* json.Marshaler, what spb.NewValue makes of it (native) and what its     *)
(* JSON encoding decodes to (json); ok is FALSE where the step fails.      *)
(***************************************************************************)
NoValue == [ok |-> FALSE, val |-> NewNilValue]

OkValue(v) == [ok |-> TRUE, val |-> v]

AnyObject(obj) ==
    CASE obj = "nil" ->
           [isNil |-> TRUE, isError |-> FALSE, isMarshaler |-> FALSE, errMsg |-> "",
            native |-> OkValue(NewNilValue), json |-> OkValue(NewNilValue)]
      [] obj = "err" ->
           [isNil |-> FALSE, isError |-> TRUE, isMarshaler |-> FALSE, errMsg |-> "boom",
            native |-> NoValue, json |-> OkValue(NewStructValue(EmptyFields))]
      [] obj = "user" ->
           [isNil |-> FALSE, isError |-> FALSE, isMarshaler |-> FALSE, errMsg |-> "",
            native |-> NoValue,
            json |-> OkValue(NewStructValue(Put(EmptyFields, "id", NewStringValue("u1"))))]
      [] obj = "chimera" ->  \* an error that is a json.Marshaler too
           [isNil |-> FALSE, isError |-> TRUE, isMarshaler |-> TRUE, errMsg |-> "ouch",
            native |-> NoValue,
            json |-> OkValue(NewStructValue(Put(EmptyFields, "name", NewStringValue("Pookie"))))]
      [] obj = "map" ->  \* a map[string]any, which spb.NewValue converts
           [isNil |-> FALSE, isError |-> FALSE, isMarshaler |-> FALSE, errMsg |-> "",
            native |-> OkValue(NewStructValue(Put(EmptyFields, "k", NewNumberValue("1")))),
            json |-> OkValue(NewStructValue(Put(EmptyFields, "k", NewNumberValue("1"))))]
      [] OTHER ->  \* "cyclic": a self-referential structure
           [isNil |-> FALSE, isError |-> FALSE, isMarshaler |-> FALSE, errMsg |-> "",
            native |-> NoValue, json |-> NoValue]

AsJSON(obj) ==
    LET o == AnyObject(obj) IN
    IF o.isNil THEN OkValue(NewNilValue) ELSE o.json

(* Whether NewAny evaluates err.Error(). *)
ErrorCalled(obj) == AnyObject(obj).isError /\ ~AnyObject(obj).isMarshaler

(* NewAny that takes the message of every error, a json.Marshaler or not. *)
NewAnyErrorFirst(obj) ==
    LET o == AnyObject(obj)
    IN IF o.isError THEN OkValue(NewStringValue(o.errMsg))
       ELSE IF o.native.ok THEN o.native
       ELSE AsJSON(obj)

NewAny(obj) ==
    LET o == AnyObject(obj) IN
    IF ErrorCalled(obj) THEN OkValue(NewStringValue(o.errMsg))
    ELSE IF o.native.ok THEN o.native
    ELSE AsJSON(obj)

(***************************************************************************)
(* DecorateWith, ValToStruct and NewGroupValue of attr.go.                 *)
(***************************************************************************)
RECURSIVE DecorateWith(_, _), ValToStruct(_), NewGroupValue(_, _)

(* DecorateWith that leaves a field that exists as it is. *)
DecorateWithKeepingFirst(payload, attr) ==
    LET rv == Resolve(attr.value)
    IN IF attr.key = "" /\ AnyIsNil(rv) THEN payload
       ELSE LET r == ValToStruct(rv)
            IN IF ~r.ok THEN payload
               ELSE IF attr.key = "" /\ attr.value.kind = "Group"
                    THEN [k \in (DOMAIN payload) \cup (DOMAIN r.val.fields) |->
                            IF k \in DOMAIN payload THEN payload[k] ELSE r.val.fields[k]]
                    ELSE IF attr.key \in DOMAIN payload THEN payload
                         ELSE Put(payload, attr.key, r.val)

(* The inline branch keys on attr.Value.Kind(), the kind before Resolve. *)
DecorateWith(payload, attr) ==
    LET rv == Resolve(attr.value) IN
    IF attr.key = "" /\ AnyIsNil(rv) THEN payload
    ELSE LET r == ValToStruct(rv) IN
         IF ~r.ok THEN payload
         ELSE IF attr.key = "" /\ attr.value.kind = "Group"
              THEN [k \in (DOMAIN payload) \cup (DOMAIN r.val.fields) |->
                       IF k \in DOMAIN r.val.fields THEN r.val.fields[k] ELSE payload[k]]
              ELSE Put(payload, attr.key, r.val)

ValToStruct(v) ==
    CASE v.kind = "String" -> OkValue(NewStringValue(v.str))
      [] v.kind = "Int64" -> OkValue(NewNumberValue(v.str))
      [] v.kind = "Bool" -> OkValue(NewBoolValue(v.str))
      [] v.kind = "Group" ->
           IF Len(v.group) = 0 THEN NoValue
           ELSE OkValue(NewStructValue(NewGroupValue(v.group, EmptyFields)))
      [] v.kind = "Any" -> NewAny(v.str)
      [] OTHER -> NoValue

(* The loop of NewGroupValue over g, p being the struct built so far. *)
NewGroupValue(g, p) ==
    IF g = <<>> THEN p ELSE NewGroupValue(Tail(g), DecorateWith(p, Head(g)))

(***************************************************************************)
(* Go slices of strings.  A slice is a backing array (0: none), a length   *)
(* and a capacity; slices that share a backing array share its cells.      *)
(***************************************************************************)
NilSlice == [arr |-> 0, len |-> 0, cap |-> 0]

SliceElems(arrs, s) == [i \in 1..s.len |-> arrs[s.arr][i]]

(* slices.Clip(s): s[:len(s):len(s)], the same backing array. *)
Clip(s) == [s EXCEPT !.cap = s.len]

(* The capacity append gives a new backing array: twice the old capacity,  *)
(* or the needed length when that is larger (the Go runtime's growslice    *)
(* for a small slice of strings).                                          *)
GrowCap(newLen, oldCap) == IF newLen > 2 * oldCap THEN newLen ELSE 2 * oldCap

(* append(s, x): within capacity the cell after the last element of s is   *)
(* written in place, otherwise the elements move to a new backing array.   *)
AppendSlice(arrs, s, x) ==
    IF s.len < s.cap
    THEN [arrs |-> [arrs EXCEPT ![s.arr][s.len + 1] = x],
          slice |-> [s EXCEPT !.len = s.len + 1]]
    ELSE LET n == GrowCap(s.len + 1, s.cap)
             old == SliceElems(arrs, s)
             new == [i \in 1..n |-> IF i <= s.len THEN old[i]
                                    ELSE IF i = s.len + 1 THEN x ELSE ""]
         IN [arrs |-> Append(arrs, new),
             slice |-> [arr |-> Len(arrs) + 1, len |-> s.len + 1, cap |-> n]]

(***************************************************************************)
(* The rewrite function.  replaceAttr is "nil" when no ReplaceAttr option  *)
(* was given; "removeKeys" is the removeKeys function of the handler tests *)
(* with the keys RemovedKeys.  The other functions of the tests:           *)
(*   "removeMessage"  removeKeys(MessageKey)                               *)
(*   "removeAll"      every attribute becomes the zero Attr                *)
(*   "upperCaseKey"   the key is replaced by strings.ToUpper of it         *)
(*   "genReplace"     genReplace(ReplaceWith, ReplaceIn...): an attribute  *)
(*                    met with the group list ReplaceIn becomes            *)
(*                    ReplaceWith                                          *)
(*   "constant"       every attribute becomes ConstantAttr                 *)
(***************************************************************************)
RemovedKeys == {"x"}

Mappers == {"nil", "removeKeys"}

(* strings.ToUpper on the keys that occur. *)
ToUpper(k) ==
    CASE k = "a" -> "A"
      [] k = "b" -> "B"
      [] k = "n" -> "N"
      [] k = "v" -> "V"
      [] k = "x" -> "X"
      [] k = "z" -> "Z"
      [] k = "message" -> "MESSAGE"
      [] OTHER -> k

ReplaceWith == Attr("e", [kind |-> "Group", str |-> "", group |-> <<>>, lv |-> <<>>])

ReplaceIn == <<"g">>

ConstantAttr == Attr("foo", StringValue("bar"))

UserMapper(m, groups, attr) ==
    CASE m = "removeKeys" -> IF attr.key \in RemovedKeys THEN ZeroAttr ELSE attr
      [] m = "removeMessage" -> IF attr.key = "message" THEN ZeroAttr ELSE attr
      [] m = "removeAll" -> ZeroAttr
      [] m = "upperCaseKey" -> [attr EXCEPT !.key = ToUpper(@)]
      [] m = "genReplace" -> IF groups = ReplaceIn THEN ReplaceWith ELSE attr
      [] m = "constant" -> ConstantAttr
      [] OTHER -> attr

IsElided(a) == a.key = "" /\ AnyIsNil(a.value)

(* The function WrapAttrMapper returns.  groups is a slice: the append of  *)
(* attr.Key to it, once per child, may write the backing array that groups *)
(* shares.  The result is the mapped attribute, the arrays afterwards and  *)
(* calls, the arguments of the calls made on the user's mapper, in order.  *)
RECURSIVE Wrapped(_, _, _, _), WrappedGroup(_, _, _, _, _, _)

Wrapped(m, arrs, groups, attr) ==
    IF attr.value.kind = "Group"
    THEN LET r == WrappedGroup(m, arrs, groups, attr.key, attr.value.group, <<>>) IN
         IF Len(r.attrs) = 0
         THEN [attr |-> ZeroAttr, arrs |-> r.arrs, calls |-> r.calls]
         ELSE [attr |-> Group(attr.key, r.attrs), arrs |-> r.arrs, calls |-> r.calls]
    ELSE [attr |-> UserMapper(m, SliceElems(arrs, groups), attr), arrs |-> arrs,
          calls |-> << [groups |-> SliceElems(arrs, groups), attr |-> attr] >>]

(* The loop over the children gs of the group key, attrs being the mapped  *)
(* children kept so far.                                                   *)
WrappedGroup(m, arrs, groups, key, gs, attrs) ==
    IF gs = <<>> THEN [attrs |-> attrs, arrs |-> arrs, calls |-> <<>>]
    ELSE LET ap == AppendSlice(arrs, groups, key)
             mapped == Wrapped(m, ap.arrs, ap.slice, Head(gs))
             rest == WrappedGroup(m, mapped.arrs, groups, key, Tail(gs),
                                  IF IsElided(mapped.attr) THEN attrs
                                  ELSE Append(attrs, mapped.attr))
         IN [rest EXCEPT !.calls = mapped.calls \o @]

(* if h.replaceAttr != nil { a = h.replaceAttr(groups, a) } *)
ReplaceAttr(m, arrs, groups, attr) ==
    IF m # "nil" THEN Wrapped(m, arrs, groups, attr)
    ELSE [attr |-> attr, arrs |-> arrs, calls |-> <<>>]

(* The loop of WithAttrs and of Handle's record.Attrs callback: each       *)
(* attribute is rewritten with the handler's groups, then written to the   *)
(* struct payload.                                                         *)
RECURSIVE DecorateAll(_, _, _, _, _)
DecorateAll(m, arrs, groups, payload, attrs) ==
    IF attrs = <<>> THEN [fields |-> payload, arrs |-> arrs, calls |-> <<>>]
    ELSE LET r == ReplaceAttr(m, arrs, groups, Head(attrs))
             rest == DecorateAll(m, r.arrs, groups, DecorateWith(payload, r.attr), Tail(attrs))
         IN [rest EXCEPT !.calls = r.calls \o @]

(***************************************************************************)
(* handler.go: the payload heap, clone, fromPath and setAndClean.          *)
(***************************************************************************)
MessageKey == "message"

(* proto.Clone that hands back the message it was given. *)
ProtoCloneSameMessage(heap, p) == [heap |-> heap, ptr |-> p]

(* proto.Clone: a deep copy in a new cell of the heap. *)
ProtoClone(heap, p) == [heap |-> Append(heap, heap[p]), ptr |-> Len(heap) + 1]

(* clone() that keeps the receiver's payload pointer instead of copying. *)
CloneSharingPayload(heap, h) ==
    [heap |-> heap, h2 |-> [h EXCEPT !.groups = Clip(h.groups)]]

(* GcpHandler.clone: the payload is cloned, the groups slice is clipped. *)
Clone(heap, h) ==
    LET pc == ProtoClone(heap, h.payload) IN
    [heap |-> pc.heap, h2 |-> [h EXCEPT !.payload = pc.ptr, !.groups = Clip(h.groups)]]

(* fromPath: the struct at path below p; the nil pointer when a name of    *)
(* the path is absent or no struct, and then the dereference panics.       *)
RECURSIVE FromPath(_, _)
FromPath(p, path) ==
    IF p.nil \/ path = <<>> THEN p
    ELSE FromPath(GetStructValue(p.fields, Head(path)), Tail(path))

(* The payload p after the struct that fromPath(p, path) points to has     *)
(* been given the fields cur.                                              *)
RECURSIVE StoreAt(_, _, _)
StoreAt(p, path, cur) ==
    IF path = <<>> THEN cur
    ELSE Put(p, Head(path), NewStructValue(StoreAt(p[Head(path)].fields, Tail(path), cur)))

(* setAndClean without the delete of a group left empty. *)
RECURSIVE SetAndKeep(_, _, _, _, _, _)
SetAndKeep(groups, payload, m, arrs, hgroups, attrs) ==
    IF payload.nil
    THEN [panic |-> TRUE, fields |-> EmptyFields, arrs |-> arrs, calls |-> <<>>]
    ELSE IF groups = <<>>
         THEN LET d == DecorateAll(m, arrs, hgroups, payload.fields, attrs)
              IN [panic |-> FALSE, fields |-> d.fields, arrs |-> d.arrs, calls |-> d.calls]
         ELSE LET g == Head(groups)
                  s == SetAndKeep(Tail(groups), GetStructValue(payload.fields, g),
                                  m, arrs, hgroups, attrs)
              IN IF s.panic THEN s
                 ELSE [panic |-> FALSE,
                       fields |-> Put(payload.fields, g, NewStructValue(s.fields)),
                       arrs |-> s.arrs, calls |-> s.calls]

(* setAndClean: descends groups, decorates the innermost struct with the   *)
(* record's attributes and on the way back deletes each struct of the path *)
(* that is left without fields.  hgroups is h.groups, handed to the        *)
(* rewrite function.                                                       *)
RECURSIVE SetAndClean(_, _, _, _, _, _)
SetAndClean(groups, payload, m, arrs, hgroups, attrs) ==
    IF payload.nil
    THEN [panic |-> TRUE, fields |-> EmptyFields, arrs |-> arrs, calls |-> <<>>]
    ELSE IF groups = <<>>
    THEN LET d == DecorateAll(m, arrs, hgroups, payload.fields, attrs) IN
         [panic |-> FALSE, fields |-> d.fields, arrs |-> d.arrs, calls |-> d.calls]
    ELSE LET g == Head(groups)
             s == SetAndClean(Tail(groups), GetStructValue(payload.fields, g),
                              m, arrs, hgroups, attrs)
         IN IF s.panic THEN s
            ELSE [panic |-> FALSE,
                  fields |-> IF DOMAIN s.fields = {}
                             THEN Delete(payload.fields, g)
                             ELSE Put(payload.fields, g, NewStructValue(s.fields)),
                  arrs |-> s.arrs, calls |-> s.calls]

(***************************************************************************)
(* level.ToSeverity: Go's integer division truncates toward zero.          *)
(***************************************************************************)
severityIntercept == 8
severitySlope == 4
severityIncrement == 100
LevelInfo == 0
Critical == 600

(* Go's int and logging.Severity are machine integers whose arithmetic     *)
(* wraps around.  The model takes the 32-bit width int has on the 386 and  *)
(* arm builds, the widest whose values can all be written here; on a       *)
(* 64-bit build the same wrap-around happens at 2^63.                      *)
MaxInt == 2147483647
MinInt == (0 - MaxInt) - 1
Half == 65536

(* a + b as the machine computes it.                                       *)
AddInt(a, b) ==
    IF b >= 0
    THEN IF a > MaxInt - b THEN MinInt + ((a - (MaxInt - b)) - 1) ELSE a + b
    ELSE IF a < MinInt - b THEN MaxInt - (((MinInt - b) - a) - 1) ELSE a + b

(* a * b as the machine computes it, for 0 <= b < 2^15: the product of the *)
(* two's complement halves of a, reduced modulo 2^32.                      *)
MulInt(a, b) ==
    LET hi  == IF a >= 0 THEN a \div Half ELSE (a \div Half) + Half
        lo  == a % Half
        plo == lo * b
        phi == hi * b + (plo \div Half)
        rhi == phi % Half
    IN IF rhi >= Half \div 2 THEN (rhi - Half) * Half + (plo % Half)
                              ELSE rhi * Half + (plo % Half)

(* Go's integer division truncates toward zero (b > 0).                    *)
TruncDiv(a, b) ==
    IF a >= 0 \/ a % b = 0 THEN a \div b ELSE (a \div b) + 1

ToSeverity(level) ==
    LET severity == MulInt(TruncDiv(AddInt(level, severityIntercept), severitySlope),
                           severityIncrement)
    IN IF LevelInfo < level THEN AddInt(severity, severityIncrement) ELSE severity

(***************************************************************************)
(* The operations of GcpHandler as functions of the heaps st (handlers,    *)
(* payloads, arrays) and of the rewrite function m.  A handler holds a     *)
(* pointer into payloads and a slice into arrays; parent and op record how *)
(* it was derived (parent 0: constructed).  A result holds the heaps       *)
(* afterwards, the handler returned (new), whether the call panicked, and  *)
(* for Handle the calls made on the Logger and whether the diagnostic line *)
(* was written to stderr; rewrites and msgRewrites are the calls made on   *)
(* the user's rewrite function for the attributes and for the message,     *)
(* augmented the number of augmentors that were invoked.                   *)
(***************************************************************************)
(* otel.addBaggage with currentGroup: the members of the context's       *)
(* baggage are written by baggageToGroup into the object at               *)
(* groups, which is created where the payload has none.                  *)
OtelBaggageKey == "otel-baggage/"

(* A baggage member and a property of one (has: the property has a value). *)
Member(key, value, properties) == [key |-> key, value |-> value, properties |-> properties]

Property(key, value, has) == [key |-> key, value |-> value, has |-> has]

RECURSIVE PropertiesToFields(_, _)
PropertiesToFields(properties, fields) ==
    IF properties = <<>> THEN fields
    ELSE LET prop == Head(properties)
         IN PropertiesToFields(Tail(properties),
                               Put(fields, prop.key,
                                   IF ~prop.has THEN NewNilValue
                                   ELSE NewStringValue(prop.value)))

BaggageToGroup(member) ==
    IF Len(member.properties) = 0 THEN NewStringValue(member.value)
    ELSE NewStructValue(
             Put(Put(EmptyFields, "value", NewStringValue(member.value)),
                 "properties",
                 NewStructValue(PropertiesToFields(member.properties, EmptyFields))))

(* addBaggage that leaves an attribute of the member's key in place. *)
RECURSIVE WriteMembersKeeping(_, _)
WriteMembersKeeping(f, bag) ==
    IF bag = <<>> THEN f
    ELSE WriteMembersKeeping(IF (OtelBaggageKey \o Head(bag).key) \in DOMAIN f THEN f
                             ELSE Put(f, OtelBaggageKey \o Head(bag).key,
                                      BaggageToGroup(Head(bag))),
                             Tail(bag))

RECURSIVE WriteMembers(_, _)
WriteMembers(f, bag) ==
    IF bag = <<>> THEN f
    ELSE WriteMembers(Put(f, OtelBaggageKey \o Head(bag).key, BaggageToGroup(Head(bag))),
                      Tail(bag))

RECURSIVE AddBaggage(_, _, _)
AddBaggage(f, groups, bag) ==
    IF bag = <<>> \/ groups = <<>>
    THEN [panic |-> FALSE, fields |-> WriteMembers(f, bag)]
    ELSE LET g == Head(groups)
             value == IF g \in DOMAIN f THEN f[g] ELSE NewStructValue(EmptyFields)
             s == AddBaggage(value.fields, Tail(groups), bag)
         IN IF value.kind # "struct" \/ s.panic
            THEN [panic |-> TRUE, fields |-> f]
            ELSE [panic |-> FALSE, fields |-> Put(f, g, NewStructValue(s.fields))]

(* Labels.  A LabelPair as Label builds it, and the zero value.  The keys   *)
(* of labels are strings; the model numbers them.                          *)
maxLabels == 64

Label(key, value) == [valid |-> TRUE, ignore |-> FALSE, key |-> key, val |-> value]

ZeroLabelPair == [valid |-> FALSE, ignore |-> FALSE, key |-> 0, val |-> ""]

NoLabels == [k \in {} |-> ""]

(* The loop with the test of the cap ahead of the test of validity. *)
RECURSIVE LabelLoopCapFirst(_, _)
LabelLoopCapFirst(s, labelPairs) ==
    IF labelPairs = <<>> THEN s
    ELSE LET labelPair == Head(labelPairs)
         IN IF labelPair.ignore THEN LabelLoopCapFirst(s, Tail(labelPairs))
            ELSE IF Cardinality(DOMAIN s.labels) >= maxLabels
            THEN LabelLoopCapFirst([s EXCEPT !.ignored = Append(@, labelPair)],
                                   Tail(labelPairs))
            ELSE IF ~labelPair.valid THEN [s EXCEPT !.panic = TRUE]
            ELSE LabelLoopCapFirst([s EXCEPT !.labels = Put(@, labelPair.key, labelPair.val)],
                                   Tail(labelPairs))

(* The loop that skips a pair only when more than maxLabels are present. *)
RECURSIVE LabelLoopOneMore(_, _)
LabelLoopOneMore(s, labelPairs) ==
    IF labelPairs = <<>> THEN s
    ELSE LET labelPair == Head(labelPairs)
         IN IF labelPair.ignore THEN LabelLoopOneMore(s, Tail(labelPairs))
            ELSE IF ~labelPair.valid THEN [s EXCEPT !.panic = TRUE]
            ELSE IF Cardinality(DOMAIN s.labels) > maxLabels
            THEN LabelLoopOneMore([s EXCEPT !.ignored = Append(@, labelPair)],
                                  Tail(labelPairs))
            ELSE LabelLoopOneMore([s EXCEPT !.labels = Put(@, labelPair.key, labelPair.val)],
                                  Tail(labelPairs))

(* The loop of the closure WithLabels returns, over its own pairs.  s holds *)
(* the entry's labels and the pairs reported by slog.Error as ignored.     *)
RECURSIVE LabelLoop(_, _)
LabelLoop(s, labelPairs) ==
    IF labelPairs = <<>> THEN s
    ELSE LET labelPair == Head(labelPairs)
         IN IF labelPair.ignore THEN LabelLoop(s, Tail(labelPairs))
            ELSE IF ~labelPair.valid THEN [s EXCEPT !.panic = TRUE]
            ELSE IF Cardinality(DOMAIN s.labels) >= maxLabels
            THEN LabelLoop([s EXCEPT !.ignored = Append(@, labelPair)], Tail(labelPairs))
            ELSE LabelLoop([s EXCEPT !.labels = Put(@, labelPair.key, labelPair.val)],
                           Tail(labelPairs))

(* The closure a context holds after a chain of WithLabels calls, the      *)
(* outermost first: the parent's closure runs before the call's own loop.  *)
RECURSIVE LabelsEntryAugmentor(_, _)
LabelsEntryAugmentor(chain, labels) ==
    IF chain = <<>> THEN [panic |-> FALSE, labels |-> labels, ignored |-> <<>>]
    ELSE LET parent == LabelsEntryAugmentor(SubSeq(chain, 1, Len(chain) - 1), labels)
         IN IF parent.panic THEN parent
            ELSE LabelLoop(parent, chain[Len(chain)])

(* WithLabels only wraps the closure of ctx. *)
WithLabelsF(ctx, labelPairs) == [ctx EXCEPT !.labels = Append(@, labelPairs)]

(* ExtractLabels: the closure applied to a fresh entry.  A nil map and an  *)
(* empty one are both NoLabels.                                            *)
ExtractLabelsF(ctx) == LabelsEntryAugmentor(ctx.labels, NoLabels)

(* The augmentor WithOtelTracing registers, for the trace identifier. *)
tracePrefix == "projects/p/traces/"

AddTrace(e, ctx) ==
    IF ctx.trace # "" THEN [e EXCEPT !.trace = tracePrefix \o ctx.trace] ELSE e

(* One augmentor b(ctx, &e, groups), by the name it was registered under. *)
Invoke(b, ctx, e, groups) ==
    IF b = "addBaggage"
    THEN LET r == AddBaggage(e.payload, groups, ctx.baggage)
         IN [panic |-> r.panic, entry |-> [e EXCEPT !.payload = r.fields]]
    ELSE [panic |-> FALSE, entry |-> AddTrace(e, ctx)]

(* for _, b := range h.entryAugmentors { b(ctx, &e, h.groups) }            *)
(* calls lists the invocations: the augmentor, the entry and the groups it *)
(* received.                                                               *)
RECURSIVE AugmentFrom(_, _, _, _, _)
AugmentFrom(augmentors, ctx, e, groups, calls) ==
    IF augmentors = <<>> THEN [panic |-> FALSE, entry |-> e, calls |-> calls]
    ELSE LET Next1(r, cs) ==
                 IF r.panic THEN [panic |-> TRUE, entry |-> e, calls |-> cs]
                 ELSE AugmentFrom(Tail(augmentors), ctx, r.entry, groups, cs)
         IN Next1(Invoke(Head(augmentors), ctx, e, groups),
                  Append(calls, [b |-> Head(augmentors), entry |-> e, groups |-> groups]))

Augment(augmentors, ctx, e, groups) == AugmentFrom(augmentors, ctx, e, groups, <<>>)

(* var e logging.Entry with Payload, Severity and Labels set (the time     *)
(* stamp and the source location are left out).                            *)
NewEntry(payload2, level, labels) ==
    [payload |-> payload2, severity |-> ToSeverity(level), labels |-> labels, trace |-> ""]

Op(kind, name, attrs) == [kind |-> kind, name |-> name, attrs |-> attrs]

Result(hs, ps, as, new, calls, stderr) ==
    [panic |-> FALSE, handlers |-> hs, payloads |-> ps, arrays |-> as, new |-> new,
     calls |-> calls, stderr |-> stderr, before |-> EmptyFields,
     rewrites |-> <<>>, msgRewrites |-> <<>>, augmented |-> 0, augCalls |-> <<>>,
     labels |-> NoLabels, ignored |-> <<>>]

(* A nil pointer dereference: the call does not return. *)
Panic(st) ==
    [panic |-> TRUE, handlers |-> st.handlers, payloads |-> st.payloads,
     arrays |-> st.arrays, new |-> 0, calls |-> <<>>, stderr |-> FALSE,
     before |-> EmptyFields, rewrites |-> <<>>, msgRewrites |-> <<>>, augmented |-> 0,
     augCalls |-> <<>>, labels |-> NoLabels, ignored |-> <<>>]

(* newGcpLoggerWithOptions, with the options that registered augmentors *)
NewGcpHandlerWith(augmentors) ==
    Result(<< [payload |-> 1, groups |-> NilSlice, level |-> LevelInfo,
               entryAugmentors |-> augmentors,
               parent |-> 0, op |-> Op("NewGcpHandler", "", <<>>)] >>,
           << EmptyFields >>, << >>, 1, <<>>, FALSE)

(* newGcpLoggerWithOptions, with the option WithOtelBaggage *)
NewGcpHandler ==
    Result(<< [payload |-> 1, groups |-> NilSlice, level |-> LevelInfo,
               entryAugmentors |-> <<"addBaggage">>,
               parent |-> 0, op |-> Op("NewGcpHandler", "", <<>>)] >>,
           << EmptyFields >>, << >>, 1, <<>>, FALSE)

(* GcpHandler.WithAttrs *)
WithAttrsF(st, m, h, attrs) ==
    LET c == Clone(st.payloads, st.handlers[h])
        h2 == c.h2
        path == SliceElems(st.arrays, h2.groups)
        current == FromPath(StructPtr(c.heap[h2.payload]), path)
        d == DecorateAll(m, st.arrays, st.handlers[h].groups, current.fields, attrs)
    IN IF current.nil THEN Panic(st)
       ELSE [Result(Append(st.handlers,
                           [h2 EXCEPT !.parent = h, !.op = Op("WithAttrs", "", attrs)]),
                    [c.heap EXCEPT ![h2.payload] = StoreAt(@, path, d.fields)],
                    SubSeq(d.arrs, 1, Len(st.arrays)),
                    Len(st.handlers) + 1, <<>>, FALSE)
             EXCEPT !.rewrites = d.calls]

(* GcpHandler.WithLeveler *)
WithLevelerF(st, h, leveler) ==
    LET c == Clone(st.payloads, st.handlers[h])
    IN Result(Append(st.handlers,
                     [c.h2 EXCEPT !.level = leveler, !.parent = h,
                                  !.op = Op("WithLeveler", "", <<>>)]),
              c.heap, st.arrays, Len(st.handlers) + 1, <<>>, FALSE)

(* GcpHandler.Enabled *)
Enabled(h, level) == h.level <= level

(* GcpHandler.WithGroup.  The payload that clone() copied is dropped for a *)
(* second copy of h.payload; the new group list is append(h.groups, name). *)
WithGroupF(st, h, name) ==
    IF name = "" THEN Result(st.handlers, st.payloads, st.arrays, h, <<>>, FALSE)
    ELSE LET h2 == Clone(st.payloads, st.handlers[h]).h2
             pc == ProtoClone(st.payloads, st.handlers[h].payload)
             path == SliceElems(st.arrays, h2.groups)
             current == FromPath(StructPtr(pc.heap[pc.ptr]), path)
             cur == Put(current.fields, name, NewStructValue(EmptyFields))
             ap == AppendSlice(st.arrays, st.handlers[h].groups, name)
         IN IF current.nil THEN Panic(st)
            ELSE Result(Append(st.handlers,
                               [h2 EXCEPT !.payload = pc.ptr, !.groups = ap.slice,
                                          !.parent = h, !.op = Op("WithGroup", name, <<>>)]),
                        [pc.heap EXCEPT ![pc.ptr] = StoreAt(@, path, cur)],
                        ap.arrs,
                        Len(st.handlers) + 1, <<>>, FALSE)

(* Handle that writes the message before the record's attributes. *)
HandleMessageFirst(st, m, h, ctx, rec, syncErr) ==
    LET pc == ProtoClone(st.payloads, st.handlers[h].payload)
        a == ReplaceAttr(m, st.arrays, NilSlice, Attr("message", StringValue(rec.message)))
        sc == SetAndClean(SliceElems(st.arrays, st.handlers[h].groups),
                          StructPtr(DecorateWith(pc.heap[pc.ptr], a.attr)),
                          m, a.arrs, st.handlers[h].groups, rec.attrs)
        payload2 == sc.fields
        lab == ExtractLabelsF(ctx)
        aug == Augment(st.handlers[h].entryAugmentors, ctx,
                       NewEntry(payload2, rec.level, lab.labels),
                       SliceElems(sc.arrs, st.handlers[h].groups))
        e == aug.entry
    IN IF sc.panic \/ lab.panic \/ aug.panic THEN Panic(st)
       ELSE [Result(st.handlers, st.payloads, SubSeq(sc.arrs, 1, Len(st.arrays)), 0,
                    IF e.severity >= Critical
                    THEN << [method |-> "LogSync", entry |-> e, ctx |-> ctx] >>
                    ELSE << [method |-> "Log", entry |-> e] >>,
                    e.severity >= Critical /\ syncErr)
             EXCEPT !.before = payload2, !.rewrites = sc.calls, !.msgRewrites = a.calls,
                    !.augmented = Len(st.handlers[h].entryAugmentors)]

(* Handle that hands the entry to Log when LogSync returned an error. *)
HandleLogAfterSyncError(st, m, h, ctx, rec, syncErr) ==
    LET pc == ProtoClone(st.payloads, st.handlers[h].payload)
        sc == SetAndClean(SliceElems(st.arrays, st.handlers[h].groups),
                          StructPtr(pc.heap[pc.ptr]),
                          m, st.arrays, st.handlers[h].groups, rec.attrs)
        a == ReplaceAttr(m, sc.arrs, NilSlice, Attr(MessageKey, StringValue(rec.message)))
        payload2 == DecorateWith(sc.fields, a.attr)
        lab == ExtractLabelsF(ctx)
        aug == Augment(st.handlers[h].entryAugmentors, ctx,
                       NewEntry(payload2, rec.level, lab.labels),
                       SliceElems(a.arrs, st.handlers[h].groups))
        heap2 == [pc.heap EXCEPT ![pc.ptr] = aug.entry.payload]
        e == [aug.entry EXCEPT !.payload = heap2[pc.ptr]]
    IN IF sc.panic THEN Panic(st)
       ELSE IF lab.panic \/ aug.panic
       THEN [Panic(st) EXCEPT !.arrays = SubSeq(a.arrs, 1, Len(st.arrays)),
                              !.before = payload2, !.rewrites = sc.calls,
                              !.msgRewrites = a.calls]
       ELSE [Result(st.handlers,
                    SubSeq(heap2, 1, Len(st.payloads)),
                    SubSeq(a.arrs, 1, Len(st.arrays)),
                    0,
                    IF e.severity >= Critical
                    THEN << [method |-> "LogSync", entry |-> e, ctx |-> ctx] >>
                           \o (IF syncErr THEN << [method |-> "Log", entry |-> e] >>
                               ELSE <<>>)
                    ELSE << [method |-> "Log", entry |-> e] >>,
                    e.severity >= Critical /\ syncErr)
             EXCEPT !.before = payload2, !.rewrites = sc.calls, !.msgRewrites = a.calls,
                    !.augmented = Len(st.handlers[h].entryAugmentors)]

(* GcpHandler.Handle.  syncErr: LogSync returns an error.  The clone and   *)
(* the arrays the rewrite function allocated are garbage afterwards.       *)
(* before is the payload as it is when the augmentors start.  A panic in   *)
(* setAndClean comes before any attribute is rewritten, a panic in         *)
(* ExtractLabels or in an augmentor after the message was.                 *)
HandleF(st, m, h, ctx, rec, syncErr) ==
    LET pc == ProtoClone(st.payloads, st.handlers[h].payload)
        Dispatch(sc, a, payload2, lab, aug) ==
            LET heap2 == [pc.heap EXCEPT ![pc.ptr] = aug.entry.payload]
                e == [aug.entry EXCEPT !.payload = heap2[pc.ptr]]
            IN IF sc.panic THEN Panic(st)
               ELSE IF lab.panic \/ aug.panic
               THEN [Panic(st) EXCEPT !.arrays = SubSeq(a.arrs, 1, Len(st.arrays)),
                                      !.before = payload2, !.rewrites = sc.calls,
                                      !.msgRewrites = a.calls,
                                      !.augCalls = IF lab.panic THEN <<>> ELSE aug.calls]
               ELSE [Result(st.handlers,
                            SubSeq(heap2, 1, Len(st.payloads)),
                            SubSeq(a.arrs, 1, Len(st.arrays)),
                            0,
                            IF e.severity >= Critical
                            THEN << [method |-> "LogSync", entry |-> e, ctx |-> ctx] >>
                            ELSE << [method |-> "Log", entry |-> e] >>,
                            e.severity >= Critical /\ syncErr)
                     EXCEPT !.before = payload2, !.rewrites = sc.calls,
                            !.msgRewrites = a.calls,
                            !.augmented = Len(st.handlers[h].entryAugmentors),
                            !.augCalls = aug.calls]
        Labels(sc, a, payload2, lab) ==
            Dispatch(sc, a, payload2, lab,
                     Augment(st.handlers[h].entryAugmentors, ctx,
                             NewEntry(payload2, rec.level, lab.labels),
                             SliceElems(a.arrs, st.handlers[h].groups)))
        Message(sc, a) == Labels(sc, a, DecorateWith(sc.fields, a.attr), ExtractLabelsF(ctx))
        Attrs(sc) ==
            Message(sc, ReplaceAttr(m, sc.arrs, NilSlice,
                                    Attr(MessageKey, StringValue(rec.message))))
    IN Attrs(SetAndClean(SliceElems(st.arrays, st.handlers[h].groups),
                         StructPtr(pc.heap[pc.ptr]),
                         m, st.arrays, st.handlers[h].groups, rec.attrs))

(***************************************************************************)
(* The state machine.  last describes the operation just performed: its    *)
(* name, its receiver h, the handler it returned (new), whether it         *)
(* panicked, and for Handle the record and the calls made on the Logger.   *)
(***************************************************************************)
Record(level, message, attrs) == [level |-> level, message |-> message, attrs |-> attrs]

NoRecord == Record(0, "", <<>>)

(* A context, with the baggage it carries, and a Handle call's arguments. *)
Context(bag) == [baggage |-> bag, labels |-> <<>>, trace |-> ""]

Background == Context(<<>>)

Call(ctx, rec) == [ctx |-> ctx, rec |-> rec]

St == [handlers |-> handlers, payloads |-> payloads, arrays |-> arrays]

Last(op, h, c, r) ==
    [op |-> op, h |-> h, new |-> r.new, panic |-> r.panic, ctx |-> c.ctx, rec |-> c.rec,
     before |-> r.before, calls |-> r.calls, stderr |-> r.stderr,
     rewrites |-> r.rewrites, msgRewrites |-> r.msgRewrites, augmented |-> r.augmented,
     augCalls |-> r.augCalls, labels |-> r.labels, ignored |-> r.ignored]

NoCall == Call(Background, NoRecord)

Becomes(op, h, c, r) ==
    /\ handlers' = r.handlers
    /\ payloads' = r.payloads
    /\ arrays' = r.arrays
    /\ last' = Last(op, h, c, r)
    /\ UNCHANGED <<replaceAttr, context, threads>>

Starts(op, h, r) ==
    /\ replaceAttr \in Mappers
    /\ handlers = r.handlers
    /\ payloads = r.payloads
    /\ arrays = r.arrays
    /\ last = Last(op, h, NoCall, r)
    /\ context = Background
    /\ threads = <<>>

WithAttrs(h, attrs, max) ==
    /\ Len(handlers) < max
    /\ Becomes("WithAttrs", h, NoCall, WithAttrsF(St, replaceAttr, h, attrs))

WithLeveler(h, leveler, max) ==
    /\ Len(handlers) < max
    /\ Becomes("WithLeveler", h, NoCall, WithLevelerF(St, h, leveler))

WithGroupEmpty(h) ==
    Becomes("WithGroup", h, NoCall, WithGroupF(St, h, ""))

WithGroup(h, name, max) ==
    /\ name # ""
    /\ Len(handlers) < max
    /\ Becomes("WithGroup", h, NoCall, WithGroupF(St, h, name))

Handle(h, c) ==
    \E syncErr \in IF ToSeverity(c.rec.level) >= Critical THEN BOOLEAN ELSE {FALSE} :
        Becomes("Handle", h, c, HandleF(St, replaceAttr, h, c.ctx, c.rec, syncErr))

(***************************************************************************)
(* Spec: handlers derived from a constructed handler by WithAttrs and      *)
(* WithGroup in any order, and records handled by any of them.             *)
(***************************************************************************)
GroupNames == {"g", "h"}

AttrLists ==
    << <<Attr("a", IntValue("1"))>>,
       <<Attr("b", IntValue("2"))>>,
       <<Attr("a", IntValue("3")), Group("g", <<Attr("c", IntValue("4"))>>)>> >>

Baggage == << Member("t", "one", <<>>) >>

Records ==
    << Call(Background, Record(0, "m1", <<Attr("a", IntValue("9"))>>)),
       Call(Context(Baggage), Record(12, "m2", <<>>)),
       Call(Context(Baggage),
            Record(8, "m3", <<Group("k", <<Attr("c", IntValue("5")),
                                           Group("j", <<Attr("d", IntValue("6"))>>)>>),
                              Attr("x", StringValue("secret"))>>)) >>

Init == Starts("NewGcpHandler", 0, NewGcpHandler)

Next ==
    \/ \E h \in 1..Len(handlers), i \in 1..Len(AttrLists) :
           WithAttrs(h, AttrLists[i], MaxHandlers)
    \/ \E h \in 1..Len(handlers) : WithGroupEmpty(h)
    \/ \E h \in 1..Len(handlers), name \in GroupNames : WithGroup(h, name, MaxHandlers)
    \/ \E h \in 1..Len(handlers), i \in 1..Len(Records) : Handle(h, Records[i])

Spec == Init /\ [][Next]_vars

(***************************************************************************)
(* SpecAttrs: few handlers, and attribute lists and records of every shape *)
(* DecorateWith distinguishes: repeated keys, inline groups, lazily        *)
(* computed values, elided markers, empty groups, unconvertible values.    *)
(***************************************************************************)
AttrGroupNames == {"g"}

AttrAttrLists ==
    << <<Attr("a", IntValue("1")), Attr("a", IntValue("2"))>>,
       <<Attr("a", IntValue("3")),
         Group("", <<Attr("b", IntValue("4")), Attr("a", IntValue("5"))>>)>> >>

AttrRecords ==
    << Call(Context(Baggage), Record(0, "m1", <<Attr("a", IntValue("9"))>>)),
       Call(Background,
            Record(-4, "m4",
                   <<Group("g", <<Group("h", <<Attr("y", AnyValue("cyclic"))>>)>>),
                     Group("e", <<ZeroAttr>>)>>)),
       Call(Background,
            Record(16, "m5",
                   <<Attr("a", IntValue("1")),
                     Group("", <<Attr("a", IntValue("5")), Attr("b", IntValue("5"))>>),
                     Attr("b", IntValue("6"))>>)),
       Call(Background,
            Record(11, "m6",
                   <<Attr("b", IntValue("7")),
                     Attr("", LogValuerValue(GroupValue(<<Attr("b", IntValue("8"))>>))),
                     Attr("n", LogValuerValue(StringValue("lazy")))>>)),
       Call(Background,
            Record(4, "m7",
                   <<Group("e", <<>>), ZeroAttr, Attr("z", AnyValue("cyclic")),
                     Group("g", <<Group("h", <<>>)>>),
                     Attr("", LogValuerValue(AnyValue("nil")))>>)) >>

NextAttrs ==
    \/ \E h \in 1..Len(handlers), i \in 1..Len(AttrAttrLists) :
           WithAttrs(h, AttrAttrLists[i], MaxAttrHandlers)
    \/ \E h \in 1..Len(handlers) : WithGroupEmpty(h)
    \/ \E h \in 1..Len(handlers), name \in AttrGroupNames :
           WithGroup(h, name, MaxAttrHandlers)
    \/ \E h \in 1..Len(handlers), i \in 1..Len(AttrRecords) : Handle(h, AttrRecords[i])

SpecAttrs == Init /\ [][NextAttrs]_vars

(***************************************************************************)
(* SpecDeep: a logger that was built with three groups open,               *)
(*   NewGcpHandler().WithGroup("p").WithGroup("q").WithGroup("r"),         *)
(* so that the last handler's group list has length 3 in a backing array   *)
(* of capacity 4; further handlers are derived from any of the four.       *)
(***************************************************************************)
DeepGroups == <<"p", "q", "r">>

RECURSIVE DeepHandler(_)
DeepHandler(n) ==
    IF n = 0 THEN NewGcpHandler ELSE WithGroupF(DeepHandler(n - 1), n, DeepGroups[n])

DeepAttrLists ==
    << <<Attr("a", IntValue("1"))>> >>

DeepRecords ==
    << Call(Background, Record(0, "m1", <<Attr("a", IntValue("9"))>>)),
       Call(Background, Record(12, "m3", <<Group("k", <<Attr("c", IntValue("5"))>>)>>)) >>

InitDeep == Starts("WithGroup", Len(DeepGroups), DeepHandler(Len(DeepGroups)))

NextDeep ==
    \/ \E h \in 1..Len(handlers), i \in 1..Len(DeepAttrLists) :
           WithAttrs(h, DeepAttrLists[i], MaxDeepHandlers)
    \/ \E h \in 1..Len(handlers) : WithGroupEmpty(h)
    \/ \E h \in 1..Len(handlers), name \in GroupNames : WithGroup(h, name, MaxDeepHandlers)
    \/ \E h \in 1..Len(handlers), i \in 1..Len(DeepRecords) : Handle(h, DeepRecords[i])

SpecDeep == InitDeep /\ [][NextDeep]_vars

(***************************************************************************)
(* SpecRewrite: every rewrite function of the tests, a group, attributes   *)
(* and an inline group named like the message key, lazily computed values  *)
(* and opaque values of every kind NewAny distinguishes.                   *)
(***************************************************************************)
MaxRewriteHandlers == 3

RewriteMappers ==
    {"nil", "removeKeys", "removeMessage", "removeAll", "upperCaseKey", "genReplace",
     "constant"}

RewriteGroupNames == {"message", "g"}

RewriteAttrLists ==
    << <<Attr("message", StringValue("fake")), Attr("z", AnyValue("cyclic"))>>,
       <<Group("message", <<Attr("a", IntValue("1"))>>), Attr("b", IntValue("2"))>> >>

RewriteRecords ==
    << Call(Background,
            Record(0, "m1", <<Attr("message", StringValue("mine")), Attr("a", IntValue("9"))>>)),
       Call(Background,
            Record(12, "m2",
                   <<Group("", <<Attr("message", IntValue("7"))>>),
                     Group("g", <<Attr("a", IntValue("1")),
                                  Group("h", <<Attr("x", IntValue("2"))>>)>>)>>)),
       Call(Context(Baggage),
            Record(4, "m3",
                   <<Attr("n", LogValuerValue(StringValue("lazy"))),
                     Attr("z", AnyValue("cyclic")),
                     Attr("v", LogValuerValue(GroupValue(<<Attr("b", IntValue("8"))>>)))>>)),
       Call(Background,
            Record(8, "m4",
                   <<Attr("e", AnyValue("err")), Attr("c", AnyValue("chimera")),
                     Attr("u", AnyValue("user")), Attr("p", AnyValue("map")),
                     Attr("k", AnyValue("nil")), Attr("z", AnyValue("cyclic"))>>)) >>

InitRewrite ==
    /\ replaceAttr \in RewriteMappers
    /\ handlers = NewGcpHandler.handlers
    /\ payloads = NewGcpHandler.payloads
    /\ arrays = NewGcpHandler.arrays
    /\ last = Last("NewGcpHandler", 0, NoCall, NewGcpHandler)
    /\ context = Background
    /\ threads = <<>>

NextRewrite ==
    \/ \E h \in 1..Len(handlers), i \in 1..Len(RewriteAttrLists) :
           WithAttrs(h, RewriteAttrLists[i], MaxRewriteHandlers)
    \/ \E h \in 1..Len(handlers) : WithGroupEmpty(h)
    \/ \E h \in 1..Len(handlers), name \in RewriteGroupNames :
           WithGroup(h, name, MaxRewriteHandlers)
    \/ \E h \in 1..Len(handlers), i \in 1..Len(RewriteRecords) :
           Handle(h, RewriteRecords[i])

SpecRewrite == InitRewrite /\ [][NextRewrite]_vars

(***************************************************************************)
(* SpecLevels: records of every level from -LevelSpan to LevelSpan and of  *)
(* levels near the ends of int's range, and handlers that WithLeveler gave *)
(* another minimum level.                                                  *)
(***************************************************************************)
MaxLevelHandlers == 2

LevelSpan == 30

Levels == (0 - LevelSpan)..LevelSpan

(* The highest level whose severity still fits in an int, and the levels   *)
(* at the ends of int's range.                                             *)
HighestExact ==
    ((severitySlope * (MaxInt \div severityIncrement)) - severityIntercept) - 1

RecordLevels ==
    Levels \cup {MinInt, HighestExact, HighestExact + 1, MaxInt - 7, MaxInt}

LevelDebug == 0 - 4

LevelError == 8

Levelers == {LevelDebug, LevelError}

LevelAttrLists ==
    << <<Attr("a", IntValue("1"))>> >>

LevelCall(level) ==
    Call(Context(Baggage), Record(level, "m1", <<Attr("x", IntValue("9"))>>))

NextLevels ==
    \/ \E h \in 1..Len(handlers), i \in 1..Len(LevelAttrLists) :
           WithAttrs(h, LevelAttrLists[i], MaxLevelHandlers)
    \/ \E h \in 1..Len(handlers), leveler \in Levelers :
           WithLeveler(h, leveler, MaxLevelHandlers)
    \/ \E h \in 1..Len(handlers) : WithGroupEmpty(h)
    \/ \E h \in 1..Len(handlers), name \in AttrGroupNames :
           WithGroup(h, name, MaxLevelHandlers)
    \/ \E h \in 1..Len(handlers), level \in RecordLevels :
           Handle(h, LevelCall(level))

SpecLevels == Init /\ [][NextLevels]_vars

(***************************************************************************)
(* SpecContext: a handler with the tracing and the baggage augmentor, and  *)
(* a context built by chains of WithLabels calls, with baggage and a span  *)
(* put into it; labels are extracted from it and records handled with it.  *)
(***************************************************************************)
MaxChain == 3
MaxContextHandlers == 2

Block(lo, hi, v) == [i \in 1..((hi - lo) + 1) |-> Label((lo + i) - 1, v)]

LabelLists ==
    << Block(1, 40, "outer"),
       Block(30, 70, "inner"),
       << Label(1, "cow"), Label(2, "fox"), Label(1, "cat") >>,
       << ZeroLabelPair >>,
       << Label(71, "late") >> >>

ContextRecords ==
    << Record(0, "m1", <<>>),
       Record(16, "m2", <<Attr("otel-baggage/t", StringValue("mine"))>>) >>

ContextBaggage ==
    << Member("t", "one", <<>>),
       Member("b", "two", <<Property("p1", "", FALSE), Property("p2", "val2", TRUE)>>) >>

Idle == Result(handlers, payloads, arrays, 0, <<>>, FALSE)

ContextBecomes(op, ctx, r) ==
    /\ context' = ctx
    /\ last' = Last(op, 0, Call(ctx, NoRecord), r)
    /\ UNCHANGED <<replaceAttr, handlers, payloads, arrays, threads>>

WithLabels(labelPairs) ==
    /\ Len(context.labels) < MaxChain
    /\ ContextBecomes("WithLabels", WithLabelsF(context, labelPairs), Idle)

ContextWithBaggage(bag) ==
    /\ context.baggage = <<>>
    /\ ContextBecomes("ContextWithBaggage", [context EXCEPT !.baggage = bag], Idle)

ContextWithSpanContext(traceID) ==
    /\ context.trace = ""
    /\ ContextBecomes("ContextWithSpanContext", [context EXCEPT !.trace = traceID], Idle)

ExtractLabels ==
    LET r == ExtractLabelsF(context)
    IN ContextBecomes("ExtractLabels", context,
                      [Idle EXCEPT !.panic = r.panic, !.labels = r.labels,
                                   !.ignored = r.ignored])

InitContext == Starts("NewGcpHandler", 0, NewGcpHandlerWith(<<"addTrace", "addBaggage">>))

NextContext ==
    \/ \E i \in 1..Len(LabelLists) : WithLabels(LabelLists[i])
    \/ ContextWithBaggage(ContextBaggage)
    \/ ContextWithSpanContext("4bf9")
    \/ ExtractLabels
    \/ \E h \in 1..Len(handlers), name \in AttrGroupNames :
           WithGroup(h, name, MaxContextHandlers)
    \/ \E h \in 1..Len(handlers), i \in 1..Len(ContextRecords) :
           Handle(h, Call(context, ContextRecords[i]))

SpecContext == InitContext /\ [][NextContext]_vars

(***************************************************************************)
(* SpecOptions: options.ApplyOptions applied to the level options in any   *)
(* order, with the environment variable unset or set to a text.  A         *)
(* slog.Leveler is a slog.Level or a *slog.LevelVar; a text is a sequence  *)
(* of characters; int has the 32 bits of MaxInt.  The slog.Level of the   *)
(* environment is held as a leveler of type slog.Level.                    *)
(***************************************************************************)
LevelWarn == 4

Level(n) == [type |-> "slog.Level", level |-> n]

LevelVar(n) == [type |-> "*slog.LevelVar", level |-> n]

levelUnknown == Level(MaxInt)

DigitChars == <<"0", "1", "2", "3", "4", "5", "6", "7", "8", "9">>

IsDigit(c) == \E d \in 1..Len(DigitChars) : DigitChars[d] = c

DigitOf(c) == (CHOOSE d \in 1..Len(DigitChars) : DigitChars[d] = c) - 1

(* The least n with 10 * n - d >= MinInt. *)
LeastBefore(d) ==
    ((MinInt + d) \div 10) + (IF (MinInt + d) % 10 = 0 THEN 0 ELSE 1)

(* The digits of s, accumulated as a negative number n; err when a        *)
(* character is no digit or the number leaves the range of int.           *)
RECURSIVE ParseDigits(_, _)
ParseDigits(s, n) ==
    IF s = <<>> THEN [err |-> FALSE, n |-> n]
    ELSE IF ~IsDigit(Head(s)) \/ n < LeastBefore(DigitOf(Head(s)))
    THEN [err |-> TRUE, n |-> 0]
    ELSE ParseDigits(Tail(s), (10 * n) - DigitOf(Head(s)))

(* strconv.Atoi *)
Atoi(s) ==
    LET signed == s # <<>> /\ Head(s) \in {"+", "-"}
        r == ParseDigits(IF signed THEN Tail(s) ELSE s, 0)
    IN IF s = <<>> \/ (signed /\ Len(s) = 1) \/ r.err THEN [err |-> TRUE, i |-> 0]
       ELSE IF Head(s) = "-" THEN [err |-> FALSE, i |-> r.n]
       ELSE IF r.n = MinInt THEN [err |-> TRUE, i |-> 0]
       ELSE [err |-> FALSE, i |-> 0 - r.n]

(* No leveler. *)
NotGiven == [type |-> "none", level |-> 0]

(* An option is the field of Options it sets and the value; skip sets none. *)
Option(field, value) == [field |-> field, value |-> value]

WithLogLeveler(logLevel) == Option("ExplicitLogLevel", logLevel)

WithDefaultLogLeveler(defaultLogLevel) == Option("DefaultLogLevel", defaultLogLevel)

(* env: whether the variable is set (ok) and its text s *)
WithLogLevelFromEnvVar(env) ==
    IF ~env.ok THEN Option("skip", NotGiven)
    ELSE IF ~Atoi(env.s).err THEN Option("EnvVarLogLevel", Level(Atoi(env.s).i))
    ELSE Option("EnvVarLogLevel",
                Level(CASE env.s = <<"D", "E", "B", "U", "G">> -> LevelDebug
                        [] env.s = <<"I", "N", "F", "O">> -> LevelInfo
                        [] env.s = <<"W", "A", "R", "N">> -> LevelWarn
                        [] env.s = <<"E", "R", "R", "O", "R">> -> LevelError
                        [] OTHER -> LevelInfo))

RECURSIVE ApplyEach(_, _)
ApplyEach(o, opts) ==
    IF opts = <<>> THEN o
    ELSE ApplyEach(IF Head(opts).field = "skip" THEN o
                   ELSE [o EXCEPT ![Head(opts).field] = Head(opts).value],
                   Tail(opts))

(* options.ApplyOptions *)
ApplyOptionsF(opts) ==
    LET o == ApplyEach([EnvVarLogLevel |-> levelUnknown,
                        ExplicitLogLevel |-> levelUnknown,
                        DefaultLogLevel |-> levelUnknown], opts)
        level1 == IF o.EnvVarLogLevel # levelUnknown THEN o.EnvVarLogLevel
                  ELSE o.DefaultLogLevel
        level2 == IF o.ExplicitLogLevel # levelUnknown THEN o.ExplicitLogLevel ELSE level1
    IN IF level2 = levelUnknown THEN Level(LevelInfo) ELSE level2

(* The levelers given to the options, and the texts of the variable with *)
(* the level each stands for (none: no integer and no level's name).     *)
GivenLevelers ==
    {Level(LevelDebug), Level(LevelInfo), Level(LevelError), Level(MaxInt), LevelVar(MaxInt)}

EnvTexts ==
    << [s |-> <<"D", "E", "B", "U", "G">>, names |-> TRUE, level |-> LevelDebug],
       [s |-> <<"I", "N", "F", "O">>, names |-> TRUE, level |-> LevelInfo],
       [s |-> <<"W", "A", "R", "N">>, names |-> TRUE, level |-> LevelWarn],
       [s |-> <<"E", "R", "R", "O", "R">>, names |-> TRUE, level |-> LevelError],
       [s |-> <<"O", "U", "C", "H">>, names |-> FALSE, level |-> 0],
       [s |-> <<>>, names |-> FALSE, level |-> 0],
       [s |-> <<"d", "e", "b", "u", "g">>, names |-> FALSE, level |-> 0],
       [s |-> <<"-">>, names |-> FALSE, level |-> 0],
       [s |-> <<"3", "2">>, names |-> TRUE, level |-> 32],
       [s |-> <<"-", "8">>, names |-> TRUE, level |-> 0 - 8],
       [s |-> <<"+", "0", "4">>, names |-> TRUE, level |-> 4],
       [s |-> <<"2", "1", "4", "7", "4", "8", "3", "6", "4", "7">>, names |-> TRUE,
        level |-> MaxInt],
       [s |-> <<"-", "2", "1", "4", "7", "4", "8", "3", "6", "4", "8">>, names |-> TRUE,
        level |-> MinInt] >>

Unset == [ok |-> FALSE, s |-> <<>>]

Environments == {Unset} \cup {[ok |-> TRUE, s |-> EnvTexts[n].s] : n \in 1..Len(EnvTexts)}

(* The options that are given, in the orders they may be passed in. *)
Orders(options) ==
    {opts \in [1..Cardinality(options) -> options] :
         \A i, j \in 1..Cardinality(options) : opts[i] = opts[j] => i = j}

GivenOptions(explicit, default, passed, env) ==
    (IF explicit = NotGiven THEN {} ELSE {WithLogLeveler(explicit)})
    \cup (IF default = NotGiven THEN {} ELSE {WithDefaultLogLeveler(default)})
    \cup (IF passed THEN {WithLogLevelFromEnvVar(env)} ELSE {})

(* The arguments of a call of ApplyOptions, chosen at the start. *)
Arguments(explicit, default, passed, env, opts) ==
    [op |-> "arguments", explicit |-> explicit, default |-> default,
     passed |-> passed, env |-> env, opts |-> opts, Level |-> NotGiven]

InitOptions ==
    /\ replaceAttr = "nil"
    /\ handlers = <<>>
    /\ payloads = <<>>
    /\ arrays = <<>>
    /\ context = Background
    /\ threads = <<>>
    /\ \E explicit \in GivenLevelers \cup {NotGiven},
          default \in GivenLevelers \cup {NotGiven},
          passed \in BOOLEAN, env \in Environments :
           \E opts \in Orders(GivenOptions(explicit, default, passed, env)) :
               last = Arguments(explicit, default, passed, env, opts)

ApplyOptions ==
    /\ last.op = "arguments"
    /\ last' = [last EXCEPT !.op = "ApplyOptions", !.Level = ApplyOptionsF(last.opts)]
    /\ UNCHANGED <<replaceAttr, handlers, payloads, arrays, context, threads>>

NextOptions == ApplyOptions

SpecOptions == InitOptions /\ [][NextOptions]_vars

(***************************************************************************)
(* SpecTime: attr.TimeToRFC3339InMs applied to times.  A time.Time is its  *)
(* date and clock in its location, the nanoseconds within the second and   *)
(* the location's offset in seconds; a string is a sequence of characters. *)
(***************************************************************************)
Time(year, month, day, hour, min, sec, nsec, offset) ==
    [year |-> year, month |-> month, day |-> day, hour |-> hour, min |-> min,
     sec |-> sec, nsec |-> nsec, offset |-> offset]

Millisecond == 1000000

(* time.Time.Truncate for a d that divides a second *)
Truncate(t, d) == [t EXCEPT !.nsec = @ - (@ % d)]

(* time.Time.Add for a d that stays within the second *)
Add(t, d) == [t EXCEPT !.nsec = @ + d]

(* The decimal digits of n >= 0, at least width of them. *)
RECURSIVE AppendInt(_, _)
AppendInt(n, width) ==
    IF n < 10 /\ width <= 1 THEN <<DigitChars[n + 1]>>
    ELSE Append(AppendInt(n \div 10, width - 1), DigitChars[(n % 10) + 1])

RECURSIVE TrimZeros(_)
TrimZeros(digits) ==
    IF digits # <<>> /\ digits[Len(digits)] = "0"
    THEN TrimZeros(SubSeq(digits, 1, Len(digits) - 1))
    ELSE digits

(* .999999999 of a layout: the fraction without trailing zeros, nothing *)
(* when it is zero.                                                     *)
FracSecond9(nsec) ==
    IF TrimZeros(AppendInt(nsec, 9)) = <<>> THEN <<>>
    ELSE <<".">> \o TrimZeros(AppendInt(nsec, 9))

(* .000 of a layout: the first n digits of the fraction *)
FracSecond0(nsec, n) == <<".">> \o SubSeq(AppendInt(nsec, 9), 1, n)

(* Z07:00 of a layout *)
ISO8601ColonTZ(offset) ==
    IF offset = 0 THEN <<"Z">>
    ELSE LET zone == (IF offset < 0 THEN 0 - offset ELSE offset) \div 60
         IN <<IF offset < 0 THEN "-" ELSE "+">>
            \o AppendInt(zone \div 60, 2) \o <<":">> \o AppendInt(zone % 60, 2)

(* 2006-01-02T15:04:05 of a layout *)
DateTime(t) ==
    AppendInt(t.year, 4) \o <<"-">> \o AppendInt(t.month, 2) \o <<"-">>
    \o AppendInt(t.day, 2) \o <<"T">> \o AppendInt(t.hour, 2) \o <<":">>
    \o AppendInt(t.min, 2) \o <<":">> \o AppendInt(t.sec, 2)

(* t.AppendFormat(nil, time.RFC3339Nano) *)
AppendFormatRFC3339Nano(t) == DateTime(t) \o FracSecond9(t.nsec) \o ISO8601ColonTZ(t.offset)

(* t.Format(rfc3339Millis) *)
FormatRFC3339Millis(t) == DateTime(t) \o FracSecond0(t.nsec, 3) \o ISO8601ColonTZ(t.offset)

prefixLen == Len(<<"2", "0", "0", "6", "-", "0", "1", "-", "0", "2", "T", "1", "5", ":",
                   "0", "4", ":", "0", "5", ".", "0", "0", "0">>)

rounding == Millisecond \div 10

(* attr.TimeToRFC3339InMs *)
TimeToRFC3339InMsF(t) ==
    LET n == Len(<<"\"">>)
        buf == <<"\"">>
               \o AppendFormatRFC3339Nano(Add(Truncate(t, Millisecond), rounding))
    IN SubSeq(buf, 1, n + prefixLen) \o SubSeq(buf, n + prefixLen + 2, Len(buf))
       \o <<"\"">>

Years == {1, 2000, 9999, 10000}
Months == {1, 11}
Days == {2, 31}
Hours == {3, 23}
Minutes == {4, 59}
Seconds == {5, 59}
Nanoseconds == {0, 400, 99999, 100000, 999999, 1000000, 50000000, 123456789,
                999000000, 999999999}
Offsets == {0, 19800, 0 - 28800}

InitTime ==
    /\ replaceAttr = "nil"
    /\ handlers = <<>>
    /\ payloads = <<>>
    /\ arrays = <<>>
    /\ context = Background
    /\ threads = <<>>
    /\ \E year \in Years, month \in Months, day \in Days, hour \in Hours, min \in Minutes,
          sec \in Seconds, nsec \in Nanoseconds, offset \in Offsets :
           last = [op |-> "arguments",
                   t |-> Time(year, month, day, hour, min, sec, nsec, offset),
                   string |-> <<>>]

TimeToRFC3339InMs ==
    /\ last.op = "arguments"
    /\ last' = [last EXCEPT !.op = "TimeToRFC3339InMs", !.string = TimeToRFC3339InMsF(last.t)]
    /\ UNCHANGED <<replaceAttr, handlers, payloads, arrays, context, threads>>

NextTime == TimeToRFC3339InMs

SpecTime == InitTime /\ [][NextTime]_vars

(***************************************************************************)
(* SpecConcurrent: threads that call Handle or WithAttrs at the same time  *)
(* on the handlers of the logger of SpecDeep, with a rewrite function and  *)
(* one group-valued attribute each.  A call is taken in the steps that     *)
(* touch the group list: the append of the group's key to h.groups in the  *)
(* wrapped rewrite function, the call of the user's function with the list *)
(* as it then reads, and the rest of the call.  The threads are not        *)
(* synchronised, so the steps interleave in any order.                     *)
(***************************************************************************)
MaxThreads == 2

ConcurrentMappers == {"removeKeys", "upperCaseKey"}

ThreadKeys == <<"k", "j", "i">>

Child == Attr("c", IntValue("5"))

IdleThread ==
    [pc |-> "idle", op |-> "", h |-> 0, key |-> "", slice |-> NilSlice,
     received |-> <<>>, mapped |-> ZeroAttr, wrote |-> {}]

(* The call is made: a is a group, the wrapped function will append. *)
Begin(t, op, h) ==
    /\ threads[t].pc = "idle"
    /\ threads' = [threads EXCEPT ![t] = [@ EXCEPT !.pc = "append", !.op = op, !.h = h,
                                                   !.key = ThreadKeys[t]]]
    /\ UNCHANGED <<replaceAttr, handlers, payloads, arrays, last, context>>

(* append(groups, attr.Key) *)
AppendKey(t) ==
    LET ap == AppendSlice(arrays, handlers[threads[t].h].groups, threads[t].key)
    IN /\ threads[t].pc = "append"
       /\ arrays' = ap.arrs
       /\ threads' = [threads EXCEPT ![t] =
                          [@ EXCEPT !.pc = "map", !.slice = ap.slice,
                                    !.wrote = {[arr |-> ap.slice.arr, cell |-> ap.slice.len]}]]
       /\ UNCHANGED <<replaceAttr, handlers, payloads, last, context>>

(* mapper(groups, attr) on the child, with the list as the array holds it *)
CallMapper(t) ==
    /\ threads[t].pc = "map"
    /\ threads' = [threads EXCEPT ![t] =
                       [@ EXCEPT !.pc = "return",
                                 !.received = SliceElems(arrays, threads[t].slice),
                                 !.mapped = UserMapper(replaceAttr,
                                                       SliceElems(arrays, threads[t].slice),
                                                       Child)]]
    /\ UNCHANGED <<replaceAttr, handlers, payloads, arrays, last, context>>

(* The group the wrapped function returns for the mapped child. *)
MappedGroup(t) ==
    IF IsElided(threads[t].mapped) THEN ZeroAttr
    ELSE Group(threads[t].key, <<threads[t].mapped>>)

(* The rest of the call, with the attribute as it was rewritten. *)
Return(t) ==
    /\ threads[t].pc = "return"
    /\ threads' = [threads EXCEPT ![t] = [@ EXCEPT !.pc = "done"]]
    /\ IF threads[t].op = "Handle"
       THEN /\ last' = Last("Handle", threads[t].h,
                            Call(Background, Record(0, "m1", <<MappedGroup(t)>>)),
                            HandleF(St, "nil", threads[t].h, Background,
                                    Record(0, "m1", <<MappedGroup(t)>>), FALSE))
            /\ UNCHANGED <<handlers, payloads>>
       ELSE LET r == WithAttrsF(St, "nil", threads[t].h, <<MappedGroup(t)>>)
            IN /\ last' = Last("WithAttrs", threads[t].h, NoCall, r)
               /\ handlers' = r.handlers
               /\ payloads' = r.payloads
    /\ UNCHANGED <<replaceAttr, arrays, context>>

InitConcurrent ==
    /\ replaceAttr \in ConcurrentMappers
    /\ handlers = DeepHandler(Len(DeepGroups)).handlers
    /\ payloads = DeepHandler(Len(DeepGroups)).payloads
    /\ arrays = DeepHandler(Len(DeepGroups)).arrays
    /\ last = Last("WithGroup", Len(DeepGroups), NoCall, DeepHandler(Len(DeepGroups)))
    /\ context = Background
    /\ threads = [t \in 1..MaxThreads |-> IdleThread]

NextConcurrent ==
    \/ \E t \in 1..MaxThreads, op \in {"Handle", "WithAttrs"},
          h \in 1..(Len(DeepGroups) + 1) : Begin(t, op, h)
    \/ \E t \in 1..MaxThreads : AppendKey(t)
    \/ \E t \in 1..MaxThreads : CallMapper(t)
    \/ \E t \in 1..MaxThreads : Return(t)

SpecConcurrent == InitConcurrent /\ [][NextConcurrent]_vars

(***************************************************************************)
(* What the properties below speak about.                                  *)
(***************************************************************************)
(* The open-group path handler h holds, and the payload tree it stores. *)
Path(h) == SliceElems(arrays, handlers[h].groups)

Stored(h) == payloads[handlers[h].payload]

(* The object at path inside the fields f; no fields where f has none. *)
RECURSIVE ObjectAt(_, _)
ObjectAt(f, path) ==
    IF path = <<>> THEN f
    ELSE IF Head(path) \in DOMAIN f /\ f[Head(path)].kind = "struct"
         THEN ObjectAt(f[Head(path)].fields, Tail(path))
         ELSE EmptyFields

(* The fields a list of attributes writes into an empty object. *)
FieldsOf(attrs) == NewGroupValue(attrs, EmptyFields)

(* The last step was a Handle call that returned, and the entry it sent. *)
Emitted == last.op = "Handle" /\ ~last.panic

Entry == last.calls[1].entry

(* The payload of that entry as it was before the augmentors ran. *)
PayloadBefore == last.before

(* The keys the handled record writes at the open path (the message too *)
(* when the path is the root).                                          *)
RecordKeys(path) ==
    DOMAIN FieldsOf(last.rec.attrs) \cup (IF path = <<>> THEN {MessageKey} ELSE {})

(* h1 and h2 are H.WithAttrs(A) and H.WithAttrs(B) of one handler H, and *)
(* A and B use different keys.                                           *)
Siblings(h1, h2) ==
    /\ h1 # h2
    /\ handlers[h1].op.kind = "WithAttrs"
    /\ handlers[h2].op.kind = "WithAttrs"
    /\ handlers[h1].parent = handlers[h2].parent
    /\ DOMAIN FieldsOf(handlers[h1].op.attrs) \cap DOMAIN FieldsOf(handlers[h2].op.attrs) = {}

CriticalRouting ==
    last.op = "Handle" =>
      /\ Len(last.calls) = 1
      /\ last.rec.level >= 12 => last.calls[1].method = "LogSync"
      /\ last.rec.level < 12 => last.calls[1].method = "Log"

(***************************************************************************)
(* C3  Handle leaves the handler's persistent state unchanged: the payload *)
(* tree and the open-group path stored in H are the same after a Handle    *)
(* call on H as before it, and every entry a handler emits is the entry it *)
(* would emit for the same context and record had no Handle call been     *)
(* made before, on it or on any handler it was derived from.               *)
(***************************************************************************)
(* The handler h rebuilt from a new handler by the derivations that gave h. *)
RECURSIVE Replay(_)
Replay(h) ==
    IF handlers[h].parent = 0 THEN NewGcpHandler
    ELSE LET p == Replay(handlers[h].parent)
             o == handlers[h].op
         IN IF o.kind = "WithAttrs"
            THEN WithAttrsF(p, replaceAttr, p.new, o.attrs)
            ELSE IF o.kind = "WithLeveler"
                 THEN WithLevelerF(p, p.new, handlers[h].level)
                 ELSE WithGroupF(p, p.new, o.name)

ReplayedEntry(h, ctx, rec) ==
    LET r == Replay(h) IN HandleF(r, replaceAttr, r.new, ctx, rec, FALSE).calls[1].entry

HandleKeepsHandlerState ==
    /\ [][last'.op = "Handle" =>
            /\ handlers' = handlers
            /\ payloads'[handlers'[last'.h].payload] = Stored(last'.h)
            /\ SliceElems(arrays', handlers'[last'.h].groups) = Path(last'.h)]_vars
    /\ [](Emitted => Entry = ReplayedEntry(last.h, last.ctx, last.rec))

(* A record with attributes was handled, in a context with baggage, by a *)
(* handler that has an open group and attributes of its own in it.       *)
WitnessHandleKeepsHandlerState ==
    /\ Emitted
    /\ Len(last.rec.attrs) > 0
    /\ last.ctx.baggage # <<>>
    /\ Path(last.h) # <<>>
    /\ DOMAIN ObjectAt(Stored(last.h), Path(last.h)) # {}

(***************************************************************************)
(* C4  A handler's open-group path is independent of every other handler:  *)
(* the path of H.WithGroup(x) is H's path followed by x, the path of       *)
(* H.WithAttrs(A) is H's path, and no later WithGroup, WithAttrs or Handle *)
(* call on any handler changes it, with or without a rewrite function.     *)
(***************************************************************************)
(* The group names of the derivations that gave h, in order. *)
RECURSIVE OpenedGroups(_)
OpenedGroups(h) ==
    IF handlers[h].parent = 0 THEN <<>>
    ELSE IF handlers[h].op.kind = "WithGroup"
         THEN Append(OpenedGroups(handlers[h].parent), handlers[h].op.name)
         ELSE OpenedGroups(handlers[h].parent)

GroupPathIndependent ==
    \A h \in 1..Len(handlers) : Path(h) = OpenedGroups(h)

(***************************************************************************)
(* C5  Group path round trip.  For a handler reached by WithGroup and      *)
(* WithAttrs calls, the last of them a WithAttrs inside at least one       *)
(* group, the payload of an emitted entry is the nesting of the opened     *)
(* groups, with each WithAttrs list at the level that was open when it was *)
(* added, the record's attributes at the innermost level, and message at   *)
(* the root.                                                               *)
(***************************************************************************)
(* The derivations that gave h, in order. *)
RECURSIVE Lineage(_)
Lineage(h) ==
    IF handlers[h].parent = 0 THEN <<>>
    ELSE Append(Lineage(handlers[h].parent), handlers[h].op)

(* The fields acc after the attributes, rewritten, are written to them. *)
Written(acc, attrs) == DecorateAll(replaceAttr, <<>>, NilSlice, acc, attrs).fields

(* The object that results at a level holding acc from the derivations   *)
(* ops and then a record with recAttrs: a group is opened inside the     *)
(* field of its name, which keeps what it holds.                         *)
RECURSIVE Nested(_, _, _)
Nested(ops, acc, recAttrs) ==
    IF ops = <<>> THEN Written(acc, recAttrs)
    ELSE IF Head(ops).kind = "WithAttrs"
         THEN Nested(Tail(ops), Written(acc, Head(ops).attrs), recAttrs)
         ELSE Put(acc, Head(ops).name,
                  NewStructValue(Nested(Tail(ops),
                                        GetStructValue(acc, Head(ops).name).fields,
                                        recAttrs)))

GroupPathRoundTrip ==
    (/\ Emitted
     /\ handlers[last.h].op.kind = "WithAttrs"
     /\ Path(last.h) # <<>>)
    => PayloadBefore = Put(Nested(Lineage(last.h), EmptyFields, last.rec.attrs),
                           MessageKey, NewStringValue(last.rec.message))

(***************************************************************************)
(* C6  Pruning of unpopulated handler groups.  In the payload of every     *)
(* emitted entry no object on the handler's open-group path is empty; the  *)
(* innermost group is deleted when neither WithAttrs nor the record gave   *)
(* it a field and is kept with its fields otherwise; a group further out   *)
(* is deleted exactly when it holds nothing but a deleted group.           *)
(***************************************************************************)
Prefix(path, i) == SubSeq(path, 1, i)

Present(f, path, i) ==
    /\ path[i] \in DOMAIN ObjectAt(f, Prefix(path, i - 1))
    /\ ObjectAt(f, Prefix(path, i - 1))[path[i]].kind = "struct"

WithGroupKeepsExistingField ==
    \A h \in 1..Len(handlers) :
      handlers[h].op.kind = "WithGroup" =>
        LET p == handlers[h].parent
            name == handlers[h].op.name
            before == ObjectAt(Stored(p), Path(p))
            after == ObjectAt(Stored(h), Path(p))
        IN /\ Path(h) = Append(Path(p), name)
           /\ name \in DOMAIN after
           /\ after[name] = IF name \in DOMAIN before THEN before[name]
                            ELSE NewStructValue(EmptyFields)

(***************************************************************************)
(* C8  Last-write-wins.  The attributes written at a handler's open path   *)
(* are those of the WithAttrs calls made since the path was opened, in     *)
(* call order, then those of the record; an empty-key group stands for its *)
(* children.  For every key written, the emitted payload holds at that     *)
(* path exactly the value of the last write of the key.                    *)
(***************************************************************************)
(* The attributes of the WithAttrs calls since the last WithGroup of h. *)
RECURSIVE LevelAttrs(_)
LevelAttrs(h) ==
    IF handlers[h].parent = 0 \/ handlers[h].op.kind = "WithGroup" THEN <<>>
    ELSE LevelAttrs(handlers[h].parent) \o handlers[h].op.attrs

Rewritten(attrs) ==
    [i \in 1..Len(attrs) |-> ReplaceAttr(replaceAttr, <<>>, NilSlice, attrs[i]).attr]

(* The writes, key and value, a list of attributes makes, in order. *)
RECURSIVE Writes(_)
Writes(attrs) ==
    IF attrs = <<>> THEN <<>>
    ELSE LET a == Head(attrs)
             r == ValToStruct(Resolve(a.value))
         IN (IF a.key = "" /\ a.value.kind = "Group" THEN Writes(a.value.group)
             ELSE IF IsElided(Attr(a.key, Resolve(a.value))) \/ ~r.ok THEN <<>>
             ELSE << [key |-> a.key, val |-> r.val] >>)
            \o Writes(Tail(attrs))

WritesAt(h) == Writes(Rewritten(LevelAttrs(h) \o last.rec.attrs))

RECURSIVE Dropped(_)
Dropped(a) ==
    LET rv == Resolve(a.value)
    IN IF rv.kind = "Group" THEN \A i \in 1..Len(rv.group) : Dropped(rv.group[i])
       ELSE (a.key = "" /\ AnyIsNil(rv)) \/ ~ValToStruct(rv).ok

RECURSIVE HoldsEmptyObject(_)
HoldsEmptyObject(v) ==
    /\ v.kind = "struct"
    /\ \/ v.fields = EmptyFields
       \/ \E k \in DOMAIN v.fields : HoldsEmptyObject(v.fields[k])

EmptyGroupElided ==
    Emitted =>
      LET attrs == last.rec.attrs
          obj == ObjectAt(PayloadBefore, Path(last.h))
          base == DOMAIN ObjectAt(Stored(last.h), Path(last.h))
      IN /\ \A i \in 1..Len(attrs) :
              (/\ attrs[i].key # ""
               /\ Resolve(attrs[i].value).kind = "Group"
               /\ Dropped(attrs[i])
               /\ attrs[i].key \notin base
               /\ \A j \in 1..Len(attrs) : j # i => attrs[j].key # attrs[i].key)
              => attrs[i].key \notin DOMAIN obj
         /\ \A k \in DOMAIN FieldsOf(attrs) :
              k \in DOMAIN obj => ~HoldsEmptyObject(obj[k])

(***************************************************************************)
(* C10  Inline groups.  A record attribute with an empty key whose         *)
(* resolved value is a non-empty group adds each child as a direct field   *)
(* of the current object and adds no field under the empty key, whether    *)
(* the group is given directly or by a lazily computed value.              *)
(***************************************************************************)
InlineGroups ==
    Emitted =>
      LET attrs == last.rec.attrs
          obj == ObjectAt(PayloadBefore, Path(last.h))
      IN \A i \in 1..Len(attrs) :
           LET rv == Resolve(attrs[i].value)
           IN (/\ attrs[i].key = ""
               /\ rv.kind = "Group"
               /\ Len(rv.group) > 0
               /\ "" \notin DOMAIN ObjectAt(Stored(last.h), Path(last.h)))
              => /\ "" \notin DOMAIN obj
                 /\ \A n \in 1..Len(rv.group) : rv.group[n].key \in DOMAIN obj

(***************************************************************************)
(* C11  With no rewrite function configured, the payload of every emitted  *)
(* entry has at its root a field message that holds the string of the      *)
(* record's message text, whatever the handler's open-group path and       *)
(* whatever WithAttrs, WithGroup or the record wrote, an attribute or a    *)
(* group named message included.                                           *)
(***************************************************************************)
MessageAtRoot ==
    (Emitted /\ replaceAttr = "nil") =>
      /\ MessageKey \in DOMAIN Entry.payload
      /\ Entry.payload[MessageKey] = NewStringValue(last.rec.message)

(* No rewrite function; the handler has the group message open, so that *)
(* its payload holds an object message at the root, and the record       *)
(* carries an attribute named message too.                               *)
WitnessMessageAtRoot ==
    /\ Emitted
    /\ replaceAttr = "nil"
    /\ MessageKey \in DOMAIN Stored(last.h)
    /\ MessageKey \in DOMAIN FieldsOf(last.rec.attrs)
    /\ Path(last.h) = <<MessageKey>>

(***************************************************************************)
(* C12  The synthetic message attribute is passed to the configured        *)
(* rewrite function exactly once per Handle call, with an empty group      *)
(* list whatever the handler's open-group path, and what is written at the *)
(* payload root is the function's result: a renamed key, a changed value,  *)
(* or nothing when the result is the elided marker.                        *)
(***************************************************************************)
(* The message attribute of the handled record. *)
MessageAttr == Attr(MessageKey, StringValue(last.rec.message))

(* The payload of the entry after the record's attributes were written *)
(* and before the message is.                                          *)
AfterAttrs ==
    SetAndClean(Path(last.h), StructPtr(Stored(last.h)), replaceAttr, arrays,
                handlers[last.h].groups, last.rec.attrs).fields

MessageRewrittenOnce ==
    (last.op = "Handle" /\ replaceAttr # "nil") =>
      LET r == UserMapper(replaceAttr, <<>>, MessageAttr)
      IN /\ last.msgRewrites = << [groups |-> <<>>, attr |-> MessageAttr] >>
         /\ PayloadBefore = IF IsElided(r) THEN AfterAttrs
                            ELSE Put(AfterAttrs, r.key, ValToStruct(r.value).val)

(***************************************************************************)
(* C13  WrapAttrMapper(mapper) applied to (groups, a) is mapper(groups, a) *)
(* when a is no group; when a is a group it is the group a.key whose       *)
(* children are the results of the wrapped function for each child, with   *)
(* groups followed by a.key, in order and without the results that have an *)
(* empty key and an absent value, and it is the elided marker when no      *)
(* child remains; the user's mapper is never called with a group.          *)
(***************************************************************************)
NotElided(a) == ~IsElided(a)

(* What the sentence above gives for the mapper m, the group list groups *)
(* and the attribute a.                                                  *)
RECURSIVE WrapContract(_, _, _)
WrapContract(m, groups, a) ==
    IF a.value.kind # "Group" THEN UserMapper(m, groups, a)
    ELSE LET results == [i \in 1..Len(a.value.group) |->
                            WrapContract(m, Append(groups, a.key), a.value.group[i])]
             remaining == SelectSeq(results, NotElided)
         IN IF remaining = <<>> THEN ZeroAttr
            ELSE Attr(a.key, [kind |-> "Group", str |-> "", group |-> remaining, lv |-> <<>>])

(* The attributes the last call handed to the rewrite function. *)
LastAttrs ==
    IF last.op = "Handle" THEN last.rec.attrs
    ELSE IF last.op = "WithAttrs" /\ ~last.panic THEN handlers[last.new].op.attrs
    ELSE <<>>

WrapAttrMapperContract ==
    replaceAttr # "nil" =>
      \A i \in 1..Len(LastAttrs) :
        LET w == Wrapped(replaceAttr, arrays, handlers[last.h].groups, LastAttrs[i])
        IN /\ w.attr = WrapContract(replaceAttr, Path(last.h), LastAttrs[i])
           /\ \A c \in 1..Len(w.calls) : w.calls[c].attr.value.kind # "Group"

(***************************************************************************)
(* C14  Resolution precedes rewriting: whenever the rewrite function is    *)
(* invoked for an attribute, in Handle or in WithAttrs, the attribute's    *)
(* value has been resolved, so the function never receives a lazily        *)
(* computed value; when the resolved value is a group the function is      *)
(* applied to the group's children and not to the attribute itself.        *)
(***************************************************************************)
ResolvedBeforeRewrite ==
    \A i \in 1..Len(last.rewrites \o last.msgRewrites) :
      LET c == (last.rewrites \o last.msgRewrites)[i]
      IN /\ c.attr.value.kind # "LogValuer"
         /\ Resolve(c.attr.value).kind # "Group"

(***************************************************************************)
(* C15  Severity gate: a Handle call on a handler whose current minimum    *)
(* level is greater than the record's level does nothing: no call on the   *)
(* Logger (neither Log nor LogSync), no call of an entry augmentor and no  *)
(* call of the rewrite function.                                           *)
(***************************************************************************)
HandleIsGated ==
    (last.op = "Handle" /\ ~Enabled(handlers[last.h], last.rec.level))
       => /\ last.calls = <<>>
          /\ last.augmented = 0
          /\ last.rewrites = <<>>
          /\ last.msgRewrites = <<>>

(***************************************************************************)
(* C16  Severity mapping: for every integer level L the severity is        *)
(* ((L + 8) / 4) * 100 with the division truncating toward zero, plus 100  *)
(* when L > 0 (info); the mapping is non-decreasing in L and gives exactly *)
(* -8 -> 0, -4 -> 100, 0 -> 200, 2 -> 300, 4 -> 400, 8 -> 500, 12 -> 600,  *)
(* 16 -> 700, 20 -> 800.  Quotient and IsSeverityOf state the formula over *)
(* the integers, arranged so that no intermediate value leaves the range   *)
(* in which it can be evaluated: (L + 8) / 4 is L \div 4 + 2 from -8       *)
(* upward and (L + 11) \div 4 below, and s is q * 100 + d exactly when s   *)
(* is a multiple of 100 whose hundredth is q + d / 100.                    *)
(***************************************************************************)
Quotient(L) ==
    IF L >= 0 - 8 THEN (L \div 4) + 2 ELSE (L + 11) \div 4

IsSeverityOf(L, s) ==
    /\ s % 100 = 0
    /\ s \div 100 = Quotient(L) + (IF L > 0 THEN 1 ELSE 0)

SeverityTable ==
    << <<0 - 8, 0>>, <<0 - 4, 100>>, <<0, 200>>, <<2, 300>>, <<4, 400>>,
       <<8, 500>>, <<12, 600>>, <<16, 700>>, <<20, 800>> >>

SeverityMapping ==
    Emitted =>
       /\ IsSeverityOf(last.rec.level, Entry.severity)
       /\ \A L \in RecordLevels : IsSeverityOf(L, ToSeverity(L))
       /\ \A L1, L2 \in RecordLevels :
             L1 <= L2 => ToSeverity(L1) <= ToSeverity(L2)
       /\ \A i \in 1..Len(SeverityTable) :
             ToSeverity(SeverityTable[i][1]) = SeverityTable[i][2]

(***************************************************************************)
(* C17  For every level a record can carry (any integer, not only the      *)
(* named levels) the severity written to the entry is one of the fixed     *)
(* tiers 0, 100, ..., 800: never negative, never above the emergency tier. *)
(***************************************************************************)
Tiers == {0, 100, 200, 300, 400, 500, 600, 700, 800}

SeverityIsATier == Emitted => Entry.severity \in Tiers

(***************************************************************************)
(* C18  Precedence for opaque (Any) values, first match wins: an error     *)
(* that is not a JSON marshaler becomes the string of its error message;   *)
(* otherwise a value directly convertible to a structured value is         *)
(* converted directly; otherwise a value that can be JSON-marshaled        *)
(* becomes the structured form of its JSON; otherwise the attribute is     *)
(* dropped.  nil becomes Null.  A value that is an error and a JSON        *)
(* marshaler is rendered from its JSON, its error message is not asked     *)
(* for.  Stated on the entries Handle emits: a record attribute that       *)
(* reaches the conversion holding an Any value, its key written by nothing *)
(* else in the record and not hidden by the message, is found at the       *)
(* handler's path with the value AnyExpected gives; when AnyExpected gives *)
(* none, the key holds what the handler had stored for it, or is absent.   *)
(***************************************************************************)
AnyExpected(obj) ==
    LET o == AnyObject(obj) IN
    CASE o.isNil -> OkValue(NewNilValue)
      [] ~o.isNil /\ o.isError /\ ~o.isMarshaler -> OkValue(NewStringValue(o.errMsg))
      [] ~o.isNil /\ ~(o.isError /\ ~o.isMarshaler) /\ o.native.ok -> o.native
      [] OTHER -> IF o.json.ok THEN o.json ELSE NoValue

(* The record's attributes and the message as the rewrite function of the  *)
(* handling handler returns them.                                          *)
RewrittenRecord ==
    [i \in 1..Len(last.rec.attrs) |->
        ReplaceAttr(replaceAttr, arrays, handlers[last.h].groups, last.rec.attrs[i]).attr]

RewrittenMessage ==
    ReplaceAttr(replaceAttr, arrays, NilSlice, MessageAttr).attr

(* The message overwrites the key k at path. *)
MessageHides(path, k) ==
    /\ ~IsElided(RewrittenMessage)
    /\ IF path = <<>> THEN RewrittenMessage.key = k
       ELSE RewrittenMessage.key = Head(path)

AnyReachesConversion(i) ==
    LET as == RewrittenRecord IN
    /\ as[i].value.kind = "Any"
    /\ ~IsElided(as[i])
    /\ \A j \in 1..Len(as) :
          j # i => (as[j].key # as[i].key /\ ~(as[j].key = "" /\ as[j].value.kind = "Group"))
    /\ ~MessageHides(Path(last.h), as[i].key)

AnyPrecedence ==
    Emitted =>
      LET as == RewrittenRecord
          obj == ObjectAt(PayloadBefore, Path(last.h))
          had == ObjectAt(Stored(last.h), Path(last.h))
      IN \A i \in 1..Len(as) :
           AnyReachesConversion(i) =>
             LET k == as[i].key
                 e == AnyExpected(as[i].value.str)
             IN IF e.ok THEN k \in DOMAIN obj /\ obj[k] = e.val
                ELSE IF k \in DOMAIN had THEN k \in DOMAIN obj /\ obj[k] = had[k]
                ELSE k \notin DOMAIN obj

(* One entry holds an error as its message, an error that is a JSON        *)
(* marshaler as its JSON, a struct as its JSON, a map converted directly,  *)
(* nil as Null, and no field for the cyclic value.                         *)
WitnessAnyPrecedence ==
    /\ Emitted
    /\ Len(last.rec.attrs) = 6
    /\ \A i \in 1..6 : AnyReachesConversion(i)
    /\ {RewrittenRecord[i].value.str : i \in 1..6}
          = {"err", "chimera", "user", "map", "nil", "cyclic"}
    /\ LET obj == ObjectAt(PayloadBefore, Path(last.h))
       IN /\ obj["e"] = NewStringValue("boom")
          /\ obj["c"] = NewStructValue(Put(EmptyFields, "name", NewStringValue("Pookie")))
          /\ obj["k"] = NewNilValue
          /\ "z" \notin DOMAIN obj

(***************************************************************************)
(* C19  An unrepresentable value is dropped without disturbing anything    *)
(* else: when a record or a WithAttrs list contains a non-group attribute  *)
(* whose value cannot be converted (a cyclic structure), Handle returns    *)
(* nil, exactly one entry is emitted, and its payload is the same as if    *)
(* the attribute had not been supplied; every other attribute and the      *)
(* message are present.  For a WithAttrs list: the payload the new handler *)
(* stores is the one it would store had the attribute not been in the      *)
(* list.                                                                   *)
(***************************************************************************)
(* a is no group and reaches the conversion, through the rewrite function  *)
(* of the handler last.h, with a value that cannot be converted.           *)
IsUnrepresentable(a) ==
    LET r == ReplaceAttr(replaceAttr, arrays, handlers[last.h].groups, a).attr IN
    /\ Resolve(a.value).kind # "Group"
    /\ Resolve(r.value).kind # "Group"
    /\ ~IsElided(r)
    /\ ~ValToStruct(Resolve(r.value)).ok

IsRepresentable(a) == ~IsUnrepresentable(a)

HasUnrepresentable(attrs) == \E i \in 1..Len(attrs) : IsUnrepresentable(attrs[i])

UnrepresentableDropped ==
    /\ (last.op = "Handle" /\ HasUnrepresentable(last.rec.attrs))
          => /\ ~last.panic
             /\ Len(last.calls) = 1
             /\ LET rec == [last.rec EXCEPT !.attrs = SelectSeq(@, IsRepresentable)]
                    w == HandleF(St, replaceAttr, last.h, last.ctx, rec, FALSE)
                IN ~w.panic /\ Entry.payload = w.calls[1].entry.payload
    /\ (last.op = "WithAttrs" /\ ~last.panic
          /\ HasUnrepresentable(handlers[last.new].op.attrs))
          => LET w == WithAttrsF(St, replaceAttr, last.h,
                                 SelectSeq(handlers[last.new].op.attrs, IsRepresentable))
             IN ~w.panic /\ Stored(last.new) = w.payloads[w.handlers[w.new].payload]

(***************************************************************************)
(* C20  When the synchronous send returns an error, Handle still returns   *)
(* nil, does not call the buffered Log for that record, does not retry the *)
(* send, and leaves the handler's state unchanged; the context passed to   *)
(* Handle is the one passed to LogSync.                                    *)
(***************************************************************************)
SyncErrorSwallowed ==
    [][(last'.op = "Handle" /\ last'.stderr) =>
          /\ ~last'.panic
          /\ Len(last'.calls) = 1
          /\ last'.calls[1].method = "LogSync"
          /\ last'.calls[1].ctx = last'.ctx
          /\ handlers' = handlers
          /\ payloads'[handlers'[last'.h].payload] = Stored(last'.h)
          /\ SliceElems(arrays', handlers'[last'.h].groups) = Path(last'.h)]_vars

(* LogSync returned an error for a record handled, in a context with       *)
(* baggage, by a handler that has an open group; the entry holds fields    *)
(* the handler does not store.                                             *)
WitnessSyncErrorSwallowed ==
    /\ last.op = "Handle"
    /\ last.stderr
    /\ last.calls[1].method = "LogSync"
    /\ last.ctx.baggage # <<>>
    /\ Path(last.h) # <<>>
    /\ DOMAIN Stored(last.h) # {}
    /\ DOMAIN last.calls[1].entry.payload # DOMAIN Stored(last.h)

(***************************************************************************)
(* C21  Handle never fails: for every handler reachable from a constructed *)
(* handler by WithGroup, WithAttrs and WithLeveler calls, every context    *)
(* and every record, Handle runs to completion without panicking and       *)
(* returns nil.                                                            *)
(***************************************************************************)
HandleNeverPanics == last.op = "Handle" => ~last.panic

(***************************************************************************)
(* C22  Augmentor ordering: in every Handle call each configured entry     *)
(* augmentor is invoked exactly once, in registration order, after the     *)
(* entry's payload (record attributes and message), severity and labels    *)
(* have been set and before the sink call; each augmentor receives the     *)
(* handler's open-group path, and the entry handed to the sink reflects    *)
(* all augmentor mutations.                                                *)
(***************************************************************************)
(* The entry as the n-th augmentor leaves it. *)
AfterAugmentor(n) ==
    Invoke(last.augCalls[n].b, last.ctx, last.augCalls[n].entry, last.augCalls[n].groups).entry

AugmentorsInOrder ==
    /\ Len(last.augCalls) = Len(handlers[last.h].entryAugmentors)
    /\ \A n \in 1..Len(last.augCalls) :
           /\ last.augCalls[n].b = handlers[last.h].entryAugmentors[n]
           /\ last.augCalls[n].groups = Path(last.h)
           /\ last.augCalls[n].entry =
                  IF n = 1
                  THEN NewEntry(last.before, last.rec.level, ExtractLabelsF(last.ctx).labels)
                  ELSE AfterAugmentor(n - 1)
    /\ Len(last.calls) = 1
    /\ last.calls[1].entry =
           IF last.augCalls = <<>>
           THEN NewEntry(last.before, last.rec.level, ExtractLabelsF(last.ctx).labels)
           ELSE AfterAugmentor(Len(last.augCalls))

AugmentorOrdering == last.op = "Handle" => AugmentorsInOrder

(* The same of the Handle calls that return. *)
AugmentorOrderingOnReturn == (last.op = "Handle" /\ ~last.panic) => AugmentorsInOrder

(* A returned Handle call whose two augmentors both changed the entry. *)
WitnessAugmentorOrdering ==
    /\ last.op = "Handle"
    /\ ~last.panic
    /\ Len(last.augCalls) = 2
    /\ Path(last.h) # <<>>
    /\ last.augCalls[2].entry # last.augCalls[1].entry
    /\ last.calls[1].entry # last.augCalls[2].entry
    /\ last.calls[1].entry.labels # NoLabels

(***************************************************************************)
(* C23  Baggage precedence and placement: with the baggage augmentor       *)
(* configured and baggage in the context, every member appears in the      *)
(* emitted payload inside the object at the handler's open-group path,     *)
(* under the key otel-baggage/ followed by the member's key, whatever the  *)
(* handler or the record had put under that key; with no baggage in the    *)
(* context the payload is left as it was.                                  *)
(***************************************************************************)
HasBaggageAugmentor(h) ==
    \E n \in 1..Len(handlers[h].entryAugmentors) : handlers[h].entryAugmentors[n] = "addBaggage"

MemberPlaced(member, object) ==
    /\ (OtelBaggageKey \o member.key) \in DOMAIN object
    /\ object[OtelBaggageKey \o member.key] = BaggageToGroup(member)

BaggagePlacement ==
    (Emitted /\ HasBaggageAugmentor(last.h)) =>
        IF last.ctx.baggage # <<>>
        THEN \A n \in 1..Len(last.ctx.baggage) :
                 MemberPlaced(last.ctx.baggage[n],
                              ObjectAt(Entry.payload, OpenedGroups(last.h)))
        ELSE Entry.payload = PayloadBefore

(* Baggage written over a record's attribute of the same key, inside an    *)
(* open group.                                                             *)
WitnessBaggagePlacement ==
    /\ Emitted
    /\ Len(last.ctx.baggage) = 2
    /\ OpenedGroups(last.h) # <<>>
    /\ (OtelBaggageKey \o "t") \in DOMAIN ObjectAt(PayloadBefore, OpenedGroups(last.h))
    /\ BaggagePlacement

(* Baggage written into an open group the payload had no object for. *)
WitnessBaggageRecreates ==
    /\ Emitted
    /\ last.ctx.baggage # <<>>
    /\ OpenedGroups(last.h) # <<>>
    /\ Head(OpenedGroups(last.h)) \notin DOMAIN PayloadBefore
    /\ \A n \in 1..Len(last.ctx.baggage) :
           MemberPlaced(last.ctx.baggage[n], ObjectAt(Entry.payload, OpenedGroups(last.h)))

(***************************************************************************)
(* C24  Label override by nesting: for any chain of WithLabels calls,      *)
(* ExtractLabels maps every key set anywhere in the chain to the value     *)
(* given by the innermost call that sets it, and within one call by the    *)
(* latest pair with that key; the labels of outer calls whose keys are not *)
(* overridden are all present.                                             *)
(***************************************************************************)
(* The pairs of a chain, outermost call first. *)
RECURSIVE ChainPairs(_)
ChainPairs(chain) ==
    IF chain = <<>> THEN <<>> ELSE Head(chain) \o ChainPairs(Tail(chain))

(* pairs[n] is the latest pair with its key. *)
IsLatest(pairs, n) == \A j \in (n + 1)..Len(pairs) : pairs[j].key # pairs[n].key

InnermostWins(pairs, labels) ==
    \A n \in 1..Len(pairs) :
        IsLatest(pairs, n) =>
            /\ pairs[n].key \in DOMAIN labels
            /\ labels[pairs[n].key] = pairs[n].val

Extracted == last.op = "ExtractLabels" /\ ~last.panic

LabelOverride == Extracted => InnermostWins(ChainPairs(context.labels), last.labels)

(* The same of the chains during whose extraction the map never is full. *)
LabelOverrideBelowCap ==
    (Extracted /\ Cardinality(DOMAIN last.labels) < maxLabels)
        => InnermostWins(ChainPairs(context.labels), last.labels)

(* An extraction in which a key that is present kept an outer call's value. *)
OverrideLost ==
    /\ Extracted
    /\ \E n \in 1..Len(ChainPairs(context.labels)) :
           /\ IsLatest(ChainPairs(context.labels), n)
           /\ ChainPairs(context.labels)[n].key \in DOMAIN last.labels
           /\ last.labels[ChainPairs(context.labels)[n].key] # ChainPairs(context.labels)[n].val

(***************************************************************************)
(* C25  An invalid (zero-value) LabelPair is detected at extraction, not   *)
(* at attachment: WithLabels returns a context without panicking when      *)
(* given an invalid pair, and every later ExtractLabels on that context or *)
(* on a context derived from it panics.                                    *)
(***************************************************************************)
HasInvalid(chain) ==
    \E i \in 1..Len(chain) : \E j \in 1..Len(chain[i]) : ~chain[i][j].valid

InvalidDetectedAtExtraction ==
    /\ last.op = "WithLabels" => ~last.panic
    /\ (last.op = "ExtractLabels" /\ HasInvalid(context.labels)) => last.panic

(* WithLabels has returned a context whose latest call holds the invalid   *)
(* pair.                                                                   *)
WitnessInvalidAttached ==
    /\ last.op = "WithLabels"
    /\ ~last.panic
    /\ HasInvalid(<<context.labels[Len(context.labels)]>>)

(* Extraction from a context derived from one with an invalid pair, which *)
(* comes when 64 labels are present.                                      *)
WitnessInvalidDetectedAtExtraction ==
    /\ last.op = "ExtractLabels"
    /\ last.panic
    /\ Len(context.labels) = 3
    /\ HasInvalid(<<context.labels[3]>>)
    /\ Cardinality(DOMAIN last.labels) = maxLabels

(***************************************************************************)
(* C30  Label cap: for any chain of WithLabels calls the map ExtractLabels *)
(* returns never holds more than 64 labels; once 64 labels are present     *)
(* every further pair is skipped, labels of outer calls are inserted       *)
(* before those of inner calls, and a skipped pair causes no panic.        *)
(***************************************************************************)
(* pairs[n] comes while fewer than maxLabels keys have been seen. *)
Applied(pairs, n) == Cardinality({pairs[j].key : j \in 1..(n - 1)}) < maxLabels

LatestApplied(pairs, n) ==
    /\ Applied(pairs, n)
    /\ \A j \in (n + 1)..Len(pairs) : Applied(pairs, j) => pairs[j].key # pairs[n].key

CappedLabels(pairs, labels, ignored) ==
    /\ Cardinality(DOMAIN labels) <= maxLabels
    /\ DOMAIN labels = {pairs[n].key : n \in {j \in 1..Len(pairs) : Applied(pairs, j)}}
    /\ \A n \in 1..Len(pairs) : LatestApplied(pairs, n) => labels[pairs[n].key] = pairs[n].val
    /\ Len(ignored) = Cardinality({n \in 1..Len(pairs) : ~Applied(pairs, n)})
    /\ \A n \in 1..Len(pairs) :
           ~Applied(pairs, n) => \E j \in 1..Len(ignored) : ignored[j] = pairs[n]

LabelCap ==
    /\ last.op = "ExtractLabels" => Cardinality(DOMAIN last.labels) <= maxLabels
    /\ (last.op = "ExtractLabels" /\ ~HasInvalid(context.labels)) =>
           /\ ~last.panic
           /\ CappedLabels(ChainPairs(context.labels), last.labels, last.ignored)

(* An extraction that skipped pairs of an inner call, one of them with a  *)
(* key that is present.                                                   *)
WitnessLabelCap ==
    /\ Extracted
    /\ Len(context.labels) >= 2
    /\ Cardinality(DOMAIN last.labels) = maxLabels
    /\ \E j \in 1..Len(last.ignored) : last.ignored[j].key \in DOMAIN last.labels
    /\ \E j \in 1..Len(last.ignored) : last.ignored[j].key \notin DOMAIN last.labels

(***************************************************************************)
(* C26  Minimum-level resolution: the level is the explicit level if one   *)
(* was given; otherwise the level of the environment variable if the named *)
(* variable is set (an integer text gives that level, DEBUG, INFO, WARN    *)
(* and ERROR the level of that name, any other text INFO); otherwise the   *)
(* default level if one was given; otherwise INFO.  The result does not    *)
(* depend on the order in which the three options are passed.              *)
(***************************************************************************)
(* The level the text of the variable stands for. *)
EnvLevel(env) ==
    LET n == CHOOSE n \in 1..Len(EnvTexts) : EnvTexts[n].s = env.s
    IN IF EnvTexts[n].names THEN EnvTexts[n].level ELSE LevelInfo

ResolvedLevel(explicit, default, passed, env) ==
    IF explicit # NotGiven THEN explicit
    ELSE IF passed /\ env.ok THEN Level(EnvLevel(env))
    ELSE IF default # NotGiven THEN default
    ELSE Level(LevelInfo)

LevelResolution ==
    last.op = "ApplyOptions" =>
        last.Level = ResolvedLevel(last.explicit, last.default, last.passed, last.env)

(* The same where no level given is the slog.Level math.MaxInt. *)
LevelResolutionBelowMaxInt ==
    (/\ last.op = "ApplyOptions"
     /\ last.explicit # levelUnknown
     /\ last.default # levelUnknown
     /\ (last.passed /\ last.env.ok) => EnvLevel(last.env) # MaxInt)
        => last.Level = ResolvedLevel(last.explicit, last.default, last.passed, last.env)

(***************************************************************************)
(* C27  Timestamp formatting truncates and never rounds: for every time t, *)
(* TimeToRFC3339InMs(t) is t rendered with the layout                      *)
(* 2006-01-02T15:04:05.000Z07:00 between two double-quote characters; the  *)
(* fraction has exactly three digits, those of floor(nanoseconds /         *)
(* 1,000,000), and the seconds and higher fields are those of t.           *)
(***************************************************************************)
Formatted == last.op = "TimeToRFC3339InMs"

TimestampTruncates ==
    Formatted =>
        /\ last.string = <<"\"">> \o FormatRFC3339Millis(last.t) \o <<"\"">>
        /\ FracSecond0(last.t.nsec, 3) = <<".">> \o AppendInt(last.t.nsec \div Millisecond, 3)

(* The same of the times whose year has four digits. *)
TimestampTruncatesFourDigitYear ==
    (Formatted /\ last.t.year < 10000) =>
        last.string = <<"\"">> \o FormatRFC3339Millis(last.t) \o <<"\"">>

(***************************************************************************)
(* C28  Open-path invariant: for every handler reachable from a            *)
(* constructed handler by WithAttrs, WithGroup and WithLeveler calls, on   *)
(* it or on related handlers, descending the handler's stored payload      *)
(* along its open-group path finds at every name a field that exists and   *)
(* is an object.                                                           *)
(***************************************************************************)
RECURSIVE PathOfObjects(_, _)
PathOfObjects(f, path) ==
    \/ path = <<>>
    \/ /\ Head(path) \in DOMAIN f
       /\ f[Head(path)].kind = "struct"
       /\ PathOfObjects(f[Head(path)].fields, Tail(path))

OpenPathInvariant ==
    \A h \in 1..Len(handlers) : PathOfObjects(Stored(h), Path(h))

(* The same along the names of the WithGroup calls that made the handler. *)
OpenedPathInvariant ==
    \A h \in 1..Len(handlers) : PathOfObjects(Stored(h), OpenedGroups(h))

(***************************************************************************)
(* C29  Concurrent calls on one handler do not interfere through the group *)
(* list: when several threads call Handle or WithAttrs at the same time on *)
(* the same handler, with a rewrite function and group-valued attributes,  *)
(* every invocation of the rewrite function receives as its group list the *)
(* handler's open-group path followed by the keys of the groups that       *)
(* enclose the attribute in its own call, and no two calls write the same  *)
(* memory cell.                                                            *)
(***************************************************************************)
HasCalledMapper(t) == threads[t].pc \in {"return", "done"}

ReceivesOwnGroups ==
    \A t \in 1..Len(threads) :
        HasCalledMapper(t) =>
            threads[t].received = Append(OpenedGroups(threads[t].h), threads[t].key)

WritesDisjoint ==
    \A t, u \in 1..Len(threads) : t # u => threads[t].wrote \cap threads[u].wrote = {}

NoInterference == ReceivesOwnGroups /\ WritesDisjoint

(* Two calls on handlers whose lists have no spare capacity. *)
NoInterferenceWhenClipped ==
    (\A t \in 1..Len(threads) :
         threads[t].h # 0 =>
             handlers[threads[t].h].groups.len = handlers[threads[t].h].groups.cap)
        => NoInterference

(* Two calls on one handler have both called the rewrite function. *)
ConcurrentCalls ==
    /\ Len(threads) >= 2
    /\ HasCalledMapper(1)
    /\ HasCalledMapper(2)
    /\ threads[1].h = threads[2].h

====
